---- MODULE Spec2Model ----
(***************************************************************************)
(* Link checker (olgkv/linkchecker): the per-host circuit breaker, the     *)
(* CheckLinks fan-out with its permit set and shared deadline, the         *)
(* per-link checkLink state machine, the background persistence retrier    *)
(* with its drain operation, and the task store: the in-memory index, the  *)
(* append-only tasks file with its rotation, and the replay at start-up.   *)
(*                                                                         *)
(* Strings are sequences of one-character strings, so that prefix tests,   *)
(* URL parsing and IP parsing are computed the way the code computes them. *)
(* Time is in seconds.                                                     *)
(***************************************************************************)
EXTENDS Integers, Sequences, FiniteSets, TLC

\* ------------------------------------------------------------------ bounds

\* While a CheckLinks call is followed (Spec) the clock advances in steps of
\* TickStep seconds up to MaxNow; one step is longer than the service's
\* breaker cooldown. On the breaker alone (SpecBreaker) it advances in steps
\* of BTickStep up to BMaxNow.
TickStep == 31
MaxNow == 31
BTickStep == 15
BMaxNow == 45
\* failure(host) calls made directly on a breaker (SpecBreaker) per host.
MaxRecorded == 4
\* On the store alone (SpecStore) at most MaxCalls CreateTask and
\* UpdateTaskResult calls are made and the process is restarted at most
\* MaxRestarts times. Every line of the tasks file takes EntrySize bytes, so
\* that a file of two lines has reached the rotation threshold.
MaxCalls == 4
MaxRestarts == 1
EntrySize == 52428800
\* The files Load is run on (SpecLoad) have at most MaxEntries lines.
MaxEntries == 3

\* ------------------------------------------------------------------ helpers

Get(f, k, d) == IF k \in DOMAIN f THEN f[k] ELSE d

Put(f, k, v) == [x \in DOMAIN f \cup {k} |-> IF x = k THEN v ELSE f[x]]

Del(f, k) == [x \in DOMAIN f \ {k} |-> f[x]]

EmptyMap == [x \in {} |-> 0]

EmptyStr == << >>

\* ------------------------------------------------------------------ strings

Digits == <<"0", "1", "2", "3", "4", "5", "6", "7", "8", "9">>

IsDigit(c) == \E d \in 1..10 : Digits[d] = c

DigitVal(c) == (CHOOSE d \in 1..10 : Digits[d] = c) - 1

HasPrefix(s, p) == Len(s) >= Len(p) /\ SubSeq(s, 1, Len(p)) = p

\* strings.IndexByte: the first position of c in s, 0 if there is none.
IndexByte(s, c) ==
    IF \E i \in 1..Len(s) : s[i] = c
    THEN CHOOSE i \in 1..Len(s) : s[i] = c /\ \A j \in 1..(i - 1) : s[j] # c
    ELSE 0

Contains(s, c) == IndexByte(s, c) # 0

\* The part of s before the first c (all of s if there is none).
Before(s, c) == IF Contains(s, c) THEN SubSeq(s, 1, IndexByte(s, c) - 1) ELSE s

\* The part of s after the first c (empty if there is none).
After(s, c) == IF Contains(s, c) THEN SubSeq(s, IndexByte(s, c) + 1, Len(s)) ELSE EmptyStr

RECURSIVE Split(_, _)
Split(s, c) == IF Contains(s, c) THEN <<Before(s, c)>> \o Split(After(s, c), c) ELSE <<s>>

RECURSIVE Atoi(_)
Atoi(s) == IF s = EmptyStr THEN 0 ELSE 10 * Atoi(SubSeq(s, 1, Len(s) - 1)) + DigitVal(s[Len(s)])

RECURSIVE Itoa(_)
Itoa(n) == IF n < 10 THEN <<Digits[n + 1]>> ELSE Itoa(n \div 10) \o <<Digits[(n % 10) + 1]>>

\* strings.LastIndexByte: the last position of c in s, 0 if there is none.
LastIndexByte(s, c) ==
    IF \E i \in 1..Len(s) : s[i] = c
    THEN CHOOSE i \in 1..Len(s) : s[i] = c /\ \A j \in (i + 1)..Len(s) : s[j] # c
    ELSE 0

HasSuffix(s, x) == Len(s) >= Len(x) /\ SubSeq(s, Len(s) - Len(x) + 1, Len(s)) = x

\* strings.TrimSuffix
TrimSuffix(s, x) == IF HasSuffix(s, x) THEN SubSeq(s, 1, Len(s) - Len(x)) ELSE s

\* strings.Contains for a substring.
ContainsStr(s, sub) ==
    \E i \in 1..(Len(s) - Len(sub) + 1) : SubSeq(s, i, i + Len(sub) - 1) = sub

\* filepath.Ext of a file name without directories: from the last dot on.
Ext(name) ==
    IF LastIndexByte(name, ".") = 0 THEN EmptyStr
    ELSE SubSeq(name, LastIndexByte(name, "."), Len(name))

HTTP == <<"h", "t", "t", "p", ":", "/", "/">>

HTTPS == <<"h", "t", "t", "p", "s", ":", "/", "/">>

\* ------------------------------------------------------------------ URL and IP

\* net.ParseIP for dotted-decimal IPv4: four fields of one to three digits,
\* no leading zero, each at most 255. The octets, or << >> for "not an IP".
ParseIP(host) ==
    LET f == Split(host, ".") IN
    IF /\ Len(f) = 4
       /\ \A i \in 1..4 :
            /\ Len(f[i]) \in 1..3
            /\ \A j \in 1..Len(f[i]) : IsDigit(f[i][j])
            /\ (Len(f[i]) > 1 => f[i][1] # "0")
            /\ Atoi(f[i]) <= 255
    THEN [i \in 1..4 |-> Atoi(f[i])]
    ELSE << >>

\* net.IP.String for an IPv4 address.
IPString(ip) == Itoa(ip[1]) \o <<".">> \o Itoa(ip[2]) \o <<".">> \o Itoa(ip[3]) \o <<".">> \o Itoa(ip[4])

isPrivateIP_no192(host) ==
    LET ip4 == ParseIP(host) IN
    IF ip4 = << >> THEN FALSE
    ELSE \/ ip4[1] = 10
         \/ (ip4[1] = 172 /\ ip4[2] >= 16 /\ ip4[2] <= 31)
         \/ ip4[1] = 127
         \/ (ip4[1] = 169 /\ ip4[2] = 254)

isPrivateIP(host) ==
    LET ip4 == ParseIP(host) IN
    IF ip4 = << >> THEN FALSE
    ELSE \/ ip4[1] = 10
         \/ (ip4[1] = 172 /\ ip4[2] >= 16 /\ ip4[2] <= 31)
         \/ (ip4[1] = 192 /\ ip4[2] = 168)
         \/ ip4[1] = 127
         \/ (ip4[1] = 169 /\ ip4[2] = 254)

\* The resolver the process sees (net.LookupIP): an error, or a list of
\* addresses. Host a and b are public, p private only, m mixed, z resolves to
\* no address, every other name fails to resolve.
LookupIP(host) ==
    CASE host = <<"a">> -> [err |-> FALSE, ips |-> << <<8, 8, 8, 8>> >>]
      [] host = <<"b">> -> [err |-> FALSE, ips |-> << <<1, 1, 1, 1>> >>]
      [] host = <<"p">> -> [err |-> FALSE, ips |-> << <<10, 0, 0, 1>>, <<192, 168, 1, 1>> >>]
      [] host = <<"m">> -> [err |-> FALSE, ips |-> << <<172, 16, 0, 1>>, <<8, 8, 8, 8>> >>]
      [] host = <<"z">> -> [err |-> FALSE, ips |-> << >>]
      [] OTHER -> [err |-> TRUE, ips |-> << >>]

isPrivateHost_anyPrivate(host) ==
    IF ParseIP(host) # << >> THEN isPrivateIP(host)
    ELSE LET r == LookupIP(host) IN
         IF r.err THEN TRUE
         ELSE IF Len(r.ips) = 0 THEN TRUE
         ELSE \E i \in 1..Len(r.ips) : isPrivateIP(IPString(r.ips[i]))

isPrivateHost(host) ==
    IF ParseIP(host) # << >> THEN isPrivateIP(host)
    ELSE LET r == LookupIP(host) IN
         IF r.err THEN TRUE
         ELSE IF Len(r.ips) = 0 THEN TRUE
         ELSE \A i \in 1..Len(r.ips) : isPrivateIP(IPString(r.ips[i]))

\* url.Parse followed by URL.Hostname, for a URL that starts with http:// or
\* https://: the fragment is cut at the first #, the query at the first ?,
\* the authority runs to the first /; a space in the host or a port that is
\* not all digits is a parse error; Hostname drops the port.
ParseURL(url) ==
    LET noFrag    == Before(url, "#")
        noQuery   == Before(noFrag, "?")
        rest      == IF HasPrefix(noQuery, HTTPS)
                     THEN SubSeq(noQuery, Len(HTTPS) + 1, Len(noQuery))
                     ELSE SubSeq(noQuery, Len(HTTP) + 1, Len(noQuery))
        authority == Before(rest, "/")
        port      == After(authority, ":")
    IN IF Contains(authority, " ") THEN [ok |-> FALSE, host |-> EmptyStr]
       ELSE IF \E j \in 1..Len(port) : ~IsDigit(port[j]) THEN [ok |-> FALSE, host |-> EmptyStr]
       ELSE [ok |-> TRUE, host |-> Before(authority, ":")]

\* checkLink, lines 311-314: the URL the GET goes to.
NormalizeURL(link) ==
    IF HasPrefix(link, HTTP) \/ HasPrefix(link, HTTPS) THEN link ELSE HTTPS \o link

\* ------------------------------------------------------------------ state

VARIABLES
    breaker,      \* circuitBreaker: failures, lastSeen, threshold, cooldown
    now,          \* wall clock, seconds
    cbLast,       \* the last call made on the breaker and what it returned
    recorded,     \* per host: failure() calls since the host's last reset
    lastFailAt,   \* per host: time of the last failure() call, -1 if none
    maxWorkers,   \* Service.maxWorkers
    links,        \* the batch CheckLinks was called with
    pc,           \* position of the CheckLinks call
    taskID,       \* task.ID held by the call, 0 before CreateTask returned
    ctxDone,      \* the shared context of the call is done (deadline or cancel)
    sem,          \* permits taken from the call's sem channel
    workers,      \* per link index: the goroutine that checks the link
    result,       \* the result map of the call
    ret,          \* what CheckLinks returned
    store,        \* FileStorage: nextID and the in-memory index tasks
    log,          \* the entries appended to the tasks file, in order
    updLog,       \* outcome of every UpdateTaskResult call, in call order
    persistWG,    \* Service.persistWG counter
    retrier,      \* the background retry goroutine of the call
    spawned,      \* number of retry goroutines the call has started
    waitPc,       \* position of a Wait() caller
    waitSeen,     \* whether the retrier had been spawned when Wait() was called
    repoPath,     \* JSONRepository.path, the name of the tasks file
    fileExists,   \* the tasks file exists; log is what it holds
    rotatedFiles, \* the other files of the directory: name -> lines, mod time
    proc,         \* the store's process: "boot", "up", or "down" (Load failed)
    hist,         \* what the callers of the store have been told so far
    probe,        \* one isPrivateHost call: its host and what it returned
    heap,         \* the slices and maps of the process, by address
    refs,         \* per task of the index: the addresses of Links and Result
    got,          \* the last GetTasks call and the tasks it returned, by address
    mu,           \* FileStorage.mu: the writer holding it and the readers
    threads,      \* the goroutines calling the store, each with its position
    report,       \* per caller of the report endpoint: its request and its answer
    pool,         \* the report queue: the jobs waiting and the workers
    cbMu,         \* circuitBreaker.mu: the goroutine holding it, 0 for none
    cbThreads,    \* the goroutines calling the breaker, each with its position
    calls         \* the CheckLinks calls running on one service, side by side

cbVars == <<breaker, cbLast, recorded, lastFailAt>>

callVars == <<maxWorkers, links, pc, taskID, ctxDone, sem, workers, result, ret>>

fileVars == <<repoPath, fileExists, rotatedFiles, proc, hist>>

storeVars == <<store, log, updLog, fileVars>>

persistVars == <<persistWG, retrier, spawned>>

waitVars == <<waitPc, waitSeen>>

getVars == <<heap, refs, got>>

lockVars == <<mu, threads>>

reportVars == <<report, pool>>

breakerVars == <<cbMu, cbThreads>>

multiVars == <<calls>>

concVars == <<reportVars, breakerVars, multiVars>>

auxVars == <<probe, getVars, lockVars, concVars>>

svcVars == <<callVars, storeVars, persistVars, waitVars, auxVars>>

vars == <<cbVars, now, svcVars>>

\* ------------------------------------------------------------------ circuit breaker

newCircuitBreaker(threshold, cooldown) ==
    [failures  |-> EmptyMap,
     lastSeen  |-> EmptyMap,
     threshold |-> IF threshold = 0 THEN 3 ELSE threshold,
     cooldown  |-> IF cooldown <= 0 THEN 30 ELSE cooldown]

\* time.Since(cb.lastSeen[host]): a missing key reads as the zero time, which
\* is further in the past than any cooldown.
Since(cb, host, t) ==
    IF host \in DOMAIN cb.lastSeen THEN t - cb.lastSeen[host] ELSE cb.cooldown + 1 + t

allow_denyCounts(cb, host, t) ==
    IF host = EmptyStr THEN [ok |-> TRUE, cb |-> cb]
    ELSE IF Get(cb.failures, host, 0) < cb.threshold THEN [ok |-> TRUE, cb |-> cb]
    ELSE IF Since(cb, host, t) > cb.cooldown
         THEN [ok |-> TRUE,
               cb |-> [cb EXCEPT !.failures = Del(@, host), !.lastSeen = Del(@, host)]]
         ELSE [ok |-> FALSE,
               cb |-> [cb EXCEPT !.failures = Put(@, host, Get(@, host, 0) + 1),
                                 !.lastSeen = Put(@, host, t)]]

allow_keepsCounters(cb, host, t) ==
    IF host = EmptyStr THEN [ok |-> TRUE, cb |-> cb]
    ELSE IF Get(cb.failures, host, 0) < cb.threshold THEN [ok |-> TRUE, cb |-> cb]
    ELSE IF Since(cb, host, t) > cb.cooldown THEN [ok |-> TRUE, cb |-> cb]
    ELSE [ok |-> FALSE, cb |-> cb]

allow_offByOne(cb, host, t) ==
    IF host = EmptyStr THEN [ok |-> TRUE, cb |-> cb]
    ELSE IF Get(cb.failures, host, 0) <= cb.threshold THEN [ok |-> TRUE, cb |-> cb]
    ELSE IF Since(cb, host, t) > cb.cooldown
         THEN [ok |-> TRUE,
               cb |-> [cb EXCEPT !.failures = Del(@, host), !.lastSeen = Del(@, host)]]
         ELSE [ok |-> FALSE, cb |-> cb]

allow(cb, host, t) ==
    IF host = EmptyStr THEN [ok |-> TRUE, cb |-> cb]
    ELSE IF Get(cb.failures, host, 0) < cb.threshold THEN [ok |-> TRUE, cb |-> cb]
    ELSE IF Since(cb, host, t) > cb.cooldown
         THEN [ok |-> TRUE,
               cb |-> [cb EXCEPT !.failures = Del(@, host), !.lastSeen = Del(@, host)]]
         ELSE [ok |-> FALSE, cb |-> cb]

success_onlyClosed(cb, host) ==
    IF host = EmptyStr \/ Get(cb.failures, host, 0) >= cb.threshold THEN cb
    ELSE [cb EXCEPT !.failures = Del(@, host), !.lastSeen = Del(@, host)]

success(cb, host) ==
    IF host = EmptyStr THEN cb
    ELSE [cb EXCEPT !.failures = Del(@, host), !.lastSeen = Del(@, host)]

failure(cb, host, t) ==
    IF host = EmptyStr THEN cb
    ELSE [cb EXCEPT !.failures = Put(@, host, Get(@, host, 0) + 1),
                    !.lastSeen = Put(@, host, t)]

\* Bookkeeping of the calls made on the breaker, kept apart from the breaker's
\* own counters: how many failure() calls a host has had since its last reset
\* (a success(), or an allow() that found the cooldown elapsed), and when the
\* last one was.
NoCall == [op |-> "none", host |-> EmptyStr, ok |-> TRUE, recorded |-> 0, elapsed |-> -1]

Elapsed(host) ==
    IF Get(lastFailAt, host, -1) < 0 THEN -1 ELSE now - lastFailAt[host]

NoteAllow(host, r) ==
    /\ cbLast' = [op |-> "allow", host |-> host, ok |-> r.ok,
                  recorded |-> Get(recorded, host, 0), elapsed |-> Elapsed(host)]
    /\ IF r.cb # breaker
       THEN /\ recorded' = Del(recorded, host)
            /\ lastFailAt' = Del(lastFailAt, host)
       ELSE UNCHANGED <<recorded, lastFailAt>>

NoteSuccess(host) ==
    /\ cbLast' = [op |-> "success", host |-> host, ok |-> TRUE,
                  recorded |-> Get(recorded, host, 0), elapsed |-> Elapsed(host)]
    /\ recorded' = Del(recorded, host)
    /\ lastFailAt' = Del(lastFailAt, host)

NoteFailure(host) ==
    /\ cbLast' = [op |-> "failure", host |-> host, ok |-> TRUE,
                  recorded |-> Get(recorded, host, 0), elapsed |-> Elapsed(host)]
    /\ recorded' = Put(recorded, host, Get(recorded, host, 0) + 1)
    /\ lastFailAt' = Put(lastFailAt, host, now)

\* Hosts the breaker is driven with directly: the empty host and two names.
BHosts == {EmptyStr, <<"a">>, <<"b">>}

BTick ==
    /\ now + BTickStep <= BMaxNow
    /\ now' = now + BTickStep
    /\ UNCHANGED <<cbVars, svcVars>>

BAllow(h) ==
    LET r == allow(breaker, h, now) IN
    /\ breaker' = r.cb
    /\ NoteAllow(h, r)
    /\ UNCHANGED <<now, svcVars>>

BSuccess(h) ==
    /\ breaker' = success(breaker, h)
    /\ NoteSuccess(h)
    /\ UNCHANGED <<now, svcVars>>

BFailure(h) ==
    /\ Get(recorded, h, 0) < MaxRecorded
    /\ breaker' = failure(breaker, h, now)
    /\ NoteFailure(h)
    /\ UNCHANGED <<now, svcVars>>


\* ------------------------------------------------------------------ storage

StatusAvailable == "available"

StatusNotAvailable == "not available"

NewFileStorage == [nextID |-> 1, tasks |-> EmptyMap]

\* FileStorage.CreateTask: the task is entered in the index before the
\* append; a failed append returns the error.
CreateTask(st, lnks, appendOk) ==
    LET id == st.nextID
        t  == [id |-> id, links |-> lnks, result |-> EmptyMap]
    IN [st    |-> [nextID |-> id + 1, tasks |-> Put(st.tasks, id, t)],
        id    |-> id,
        err   |-> ~appendOk,
        entry |-> [op |-> "create", task |-> t]]

UpdateTaskResult_upsert(st, id, res, appendOk) ==
    [st       |-> [st EXCEPT !.tasks = Put(@, id, [id |-> id, links |-> << >>, result |-> res])],
     err      |-> IF appendOk THEN "nil" ELSE "append",
     appended |-> appendOk,
     entry    |-> [op |-> "update", task_id |-> id, result |-> res]]

UpdateTaskResult_noIndex(st, id, res, appendOk) ==
    IF id \notin DOMAIN st.tasks
    THEN [st |-> st, err |-> "not found", appended |-> FALSE,
          entry |-> [op |-> "update", task_id |-> id, result |-> res]]
    ELSE [st       |-> st,
          err      |-> IF appendOk THEN "nil" ELSE "append",
          appended |-> appendOk,
          entry    |-> [op |-> "update", task_id |-> id, result |-> res]]

\* FileStorage.UpdateTaskResult: not found for an unknown id; otherwise the
\* result is replaced in the index and the update entry appended.
UpdateTaskResult(st, id, res, appendOk) ==
    IF id \notin DOMAIN st.tasks
    THEN [st |-> st, err |-> "not found", appended |-> FALSE,
          entry |-> [op |-> "update", task_id |-> id, result |-> res]]
    ELSE [st       |-> [st EXCEPT !.tasks[id].result = res],
          err      |-> IF appendOk THEN "nil" ELSE "append",
          appended |-> appendOk,
          entry    |-> [op |-> "update", task_id |-> id, result |-> res]]

\* JSONRepository.Append, lines 328-338: the entry, stamped, goes to the end
\* of the file.
AppendEntry(entries, entry, ok, t) ==
    IF ok THEN Append(entries, [e |-> entry, ts |-> t]) ELSE entries

maxLogFileSize == 104857600

logRetentionDays == 7

\* How one Append call can go: "ok"; "stat" (os.Stat fails, nothing is
\* changed); "open" (OpenFile fails, after a rotation that was due);
\* "torn" (Encode fails after part of the line was written); "unsynced"
\* (the line is written and Sync fails). All but "ok" return an error.
AppendOutcomes == {"ok", "stat", "open", "torn", "unsynced"}

\* A line that is not a complete JSON value.
Torn == [op |-> "torn"]

\* A map that is nil, as opposed to an empty one.
NilMap == [k \in {<<"nil">>} |-> "nil"]

FileSize(entries) == Len(entries) * EntrySize

\* The file's modification time: that of its last write.
ModTime(entries, t) == IF entries = << >> THEN t ELSE entries[Len(entries)].ts

Pad2(n) == IF n < 10 THEN <<"0">> \o Itoa(n) ELSE Itoa(n)

\* time.Now().Format("2006-01-02"), for the days of January 1970.
DateStr(t) ==
    <<"1", "9", "7", "0", "-", "0", "1", "-">> \o Pad2((t \div 86400) + 1)

\* Rotate, lines 363-369: name-date.ext next to the tasks file.
rotatedName(path, t) ==
    LET ext     == Ext(path)
        trimmed == TrimSuffix(path, ext)
        name    == IF trimmed = EmptyStr THEN path ELSE trimmed
    IN name \o <<"-">> \o DateStr(t) \o ext

DotJSON == <<".", "j", "s", "o", "n">>

\* cleanupOldLogs: of the files whose name contains ".json-" and ends in
\* ".json", those not modified after now - keepDays days are removed.
cleanupOldLogs(files, keepDays, t) ==
    IF keepDays <= 0 THEN files
    ELSE LET cutoff == t - keepDays * 86400
             Old(n) == /\ ContainsStr(n, DotJSON \o <<"-">>)
                       /\ Ext(n) = DotJSON
                       /\ ~(files[n].mod > cutoff)
         IN [n \in {m \in DOMAIN files : ~Old(m)} |-> files[n]]

\* Rotate: the tasks file is renamed (replacing a file of that name), then
\* the old files are cleaned up.
Rotate(path, exists, entries, files, t) ==
    IF ~exists THEN [exists |-> exists, entries |-> entries, files |-> files]
    ELSE [exists  |-> FALSE,
          entries |-> << >>,
          files   |-> cleanupOldLogs(
                          Put(files, rotatedName(path, t),
                              [entries |-> entries, mod |-> ModTime(entries, t)]),
                          logRetentionDays, t)]

maybeRotate(path, exists, entries, files, t) ==
    IF ~exists \/ FileSize(entries) < maxLogFileSize
    THEN [exists |-> exists, entries |-> entries, files |-> files]
    ELSE Rotate(path, exists, entries, files, t)

\* JSONRepository.Append: maybeRotate, OpenFile with O_CREATE and O_APPEND,
\* Encode, Sync.
RepoAppend(path, exists, entries, files, entry, outcome, t) ==
    IF outcome = "stat"
    THEN [exists |-> exists, entries |-> entries, files |-> files, err |-> TRUE]
    ELSE LET r == maybeRotate(path, exists, entries, files, t) IN
         IF outcome = "open"
         THEN [exists |-> r.exists, entries |-> r.entries, files |-> r.files, err |-> TRUE]
         ELSE [exists  |-> TRUE,
               entries |-> IF outcome = "torn"
                           THEN Append(r.entries, [e |-> Torn, ts |-> t])
                           ELSE AppendEntry(r.entries, entry, TRUE, t),
               files   |-> r.files,
               err     |-> outcome # "ok"]

\* What json.Decoder.Decode reads of a line json.Encoder.Encode wrote:
\* LogEntry.Result is omitempty, so a nil or empty result is left out and
\* read back as nil; Task.Result is always written.
ReadBack(entry) ==
    IF entry.op = "update"
    THEN [entry EXCEPT !.result = IF @ = EmptyMap THEN NilMap ELSE @]
    ELSE entry

\* JSONRepository.Load: the lines of the file, decoded; a line that is not
\* a complete JSON value makes Decode return an error other than io.EOF.
RepoLoad(exists, entries) ==
    IF ~exists THEN [err |-> "not exist", entries |-> << >>]
    ELSE IF \E k \in 1..Len(entries) : entries[k].e.op = "torn"
    THEN [err |-> "decode", entries |-> << >>]
    ELSE [err |-> "nil", entries |-> [k \in 1..Len(entries) |-> ReadBack(entries[k].e)]]

copyMap(src) == IF src = NilMap THEN NilMap ELSE [k \in DOMAIN src |-> src[k]]

applyEntry_upsert(st, entry) ==
    IF entry.op = "create"
    THEN IF "task" \notin DOMAIN entry THEN st
         ELSE [nextID |-> IF entry.task.id >= st.nextID THEN entry.task.id + 1 ELSE st.nextID,
               tasks  |-> Put(st.tasks, entry.task.id,
                              [id     |-> entry.task.id,
                               links  |-> entry.task.links,
                               result |-> copyMap(entry.task.result)])]
    ELSE IF entry.op = "update"
    THEN IF entry.task_id = 0 THEN st
         ELSE [st EXCEPT !.tasks = Put(@, entry.task_id,
                              [id     |-> entry.task_id,
                               links  |-> << >>,
                               result |-> copyMap(entry.result)])]
    ELSE st

\* FileStorage.applyEntry: a create without a task and an update without a
\* task ID are skipped; an update of a task that is not in the index changes
\* nothing.
applyEntry(st, entry) ==
    IF entry.op = "create"
    THEN IF "task" \notin DOMAIN entry THEN st
         ELSE [nextID |-> IF entry.task.id >= st.nextID THEN entry.task.id + 1 ELSE st.nextID,
               tasks  |-> Put(st.tasks, entry.task.id,
                              [id     |-> entry.task.id,
                               links  |-> entry.task.links,
                               result |-> copyMap(entry.task.result)])]
    ELSE IF entry.op = "update"
    THEN IF entry.task_id = 0 THEN st
         ELSE IF entry.task_id \in DOMAIN st.tasks
         THEN [st EXCEPT !.tasks[entry.task_id].result = copyMap(entry.result)]
         ELSE st
    ELSE st

\* Lines 54-58 of Load: the entries are applied in order.
RECURSIVE ApplyAll(_, _)
ApplyAll(st, entries) ==
    IF entries = << >> THEN st
    ELSE ApplyAll(applyEntry(st, Head(entries)), Tail(entries))

\* FileStorage.Load: a missing file is no error and leaves the store as it
\* is; any other error is returned; otherwise the index is rebuilt from
\* nothing.
Load(st, exists, entries) ==
    LET r == RepoLoad(exists, entries) IN
    IF r.err = "not exist" THEN [st |-> st, err |-> FALSE]
    ELSE IF r.err # "nil" THEN [st |-> st, err |-> TRUE]
    ELSE [st |-> ApplyAll(NewFileStorage, r.entries), err |-> FALSE]

taskToDTO(t) == [id |-> t.id, links |-> t.links, result |-> copyMap(t.result)]

\* FileStorage.GetTasks: the tasks of the IDs that are in the index, in the
\* order of ids.
RECURSIVE GetTasks(_, _)
GetTasks(st, ids) ==
    IF ids = << >> THEN << >>
    ELSE (IF Head(ids) \in DOMAIN st.tasks
          THEN <<taskToDTO(st.tasks[Head(ids)])>>
          ELSE << >>) \o GetTasks(st, Tail(ids))

\* The Append call UpdateTaskResult u makes for the service, which is told
\* of success or of an error: none when the task was not found, else one
\* that goes well or fails at OpenFile.
StoreAppend(u, t) ==
    IF u.err = "not found"
    THEN [exists |-> fileExists, entries |-> log, files |-> rotatedFiles, err |-> TRUE]
    ELSE RepoAppend(repoPath, fileExists, log, rotatedFiles, u.entry,
                    IF u.appended THEN "ok" ELSE "open", t)

\* ------------------------------------------------------------------ checkLink

backoffs_two == <<100, 300>>

backoffs == <<100, 300, 900>>

\* checkLink, lines 311-325: everything before the retry loop. go: the loop
\* is entered; host: the parsed host name; asked: allow was called.
checkLinkGate(cb, link, t) ==
    LET parsed == ParseURL(NormalizeURL(link)) IN
    IF ~parsed.ok
    THEN [go |-> FALSE, host |-> EmptyStr, asked |-> FALSE, r |-> [ok |-> FALSE, cb |-> cb]]
    ELSE IF isPrivateHost(parsed.host)
    THEN [go |-> FALSE, host |-> parsed.host, asked |-> FALSE, r |-> [ok |-> FALSE, cb |-> cb]]
    ELSE LET r == allow(cb, parsed.host, t) IN
         [go |-> r.ok, host |-> parsed.host, asked |-> TRUE, r |-> r]

IsAvailableCode_below300(code) == code >= 200 /\ code < 300

IsAvailableCode_above200(code) == code > 200 /\ code < 400

\* resp.StatusCode >= 200 && resp.StatusCode < 400
IsAvailableCode(code) == code >= 200 /\ code < 400

\* What the transport can answer: an error, or a response with one of these
\* status codes.
StatusCodes == {199, 200, 399, 400, 503}

\* The goroutine of one link. seen sums up what the transport has answered
\* to it so far: "none", "503" (only 503s), "2xx" (one answer, a 2xx), or
\* "other".
NewWorker ==
    [pc |-> "idle", checked |-> FALSE, i |-> 0, host |-> EmptyStr, status |-> "",
     calls |-> 0, cbCalls |-> 0, waits |-> << >>, seen |-> "none"]

Answered(seen, code) ==
    IF code = 503 /\ seen \in {"none", "503"} THEN "503"
    ELSE IF code >= 200 /\ code < 300 /\ seen = "none" THEN "2xx"
    ELSE "other"

LinkIdx == DOMAIN links

\* ------------------------------------------------------------------ CheckLinks

NoRet == [id |-> 0, result |-> EmptyMap, err |-> "pending"]

NoRetrier == [pc |-> "none", id |-> 0, res |-> EmptyMap, attempt |-> 0, backoff |-> 0,
              slept |-> << >>, outcomes |-> << >>]

resultRetryAttempts == 5

StrResult_onlyAvailable(res) ==
    [k \in {x \in DOMAIN res : res[x] = StatusAvailable} |-> res[k]]

\* strResult of CheckLinks, lines 262-265.
StrResult(res) == [k \in DOMAIN res |-> res[k]]

\* Time passes.
Tick ==
    /\ now + TickStep <= MaxNow
    /\ now' = now + TickStep
    /\ UNCHANGED <<cbVars, svcVars>>

AfterCreate_ignoreErr(err) == "dispatch"

\* Lines 228-231: CreateTask; an error ends the call.
AfterCreate(err) == IF err THEN "returned" ELSE "dispatch"

CLCreate ==
    /\ pc = "start"
    /\ \E appendOk \in BOOLEAN :
         LET c == CreateTask(store, links, appendOk)
             a == RepoAppend(repoPath, fileExists, log, rotatedFiles, c.entry,
                             IF appendOk THEN "ok" ELSE "open", now)
         IN
         /\ store' = c.st
         /\ log' = a.entries
         /\ fileExists' = a.exists
         /\ rotatedFiles' = a.files
         /\ pc' = AfterCreate(c.err)
         /\ taskID' = IF c.err THEN 0 ELSE c.id
         /\ ret' = IF c.err THEN [id |-> 0, result |-> EmptyMap, err |-> "create"] ELSE ret
    /\ UNCHANGED <<cbVars, now, maxWorkers, links, ctxDone, sem, workers, result,
                   updLog, persistVars, waitVars, repoPath, proc, hist, auxVars>>

\* Lines 241-258: one goroutine per link, each at the select.
CLDispatch ==
    /\ pc = "dispatch"
    /\ workers' = [i \in LinkIdx |-> [workers[i] EXCEPT !.pc = "select"]]
    /\ pc' = "wait"
    /\ UNCHANGED <<cbVars, now, maxWorkers, links, taskID, ctxDone, sem, result, ret,
                   storeVars, persistVars, waitVars, auxVars>>

\* The context made at line 233 ends: the timeout fires or the caller cancels.
Deadline ==
    /\ pc \in {"dispatch", "wait", "spawn"}
    /\ ~ctxDone
    /\ ctxDone' = TRUE
    /\ UNCHANGED <<cbVars, now, maxWorkers, links, pc, taskID, sem, workers, result, ret,
                   storeVars, persistVars, waitVars, auxVars>>

CanAcquire_unbounded(held, cap) == TRUE

\* sem <- struct{}{} can proceed.
CanAcquire(held, cap) == held < cap

\* Line 247: the goroutine takes a permit.
WAcquire(i) ==
    /\ workers[i].pc = "select"
    /\ CanAcquire(sem, maxWorkers)
    /\ sem' = sem + 1
    /\ workers' = [workers EXCEPT ![i].pc = "checkLink"]
    /\ UNCHANGED <<cbVars, now, maxWorkers, links, pc, taskID, ctxDone, result, ret,
                   storeVars, persistVars, waitVars, auxVars>>

\* Lines 253-254: the context is done first; the goroutine returns and
\* stores nothing.
WCtxDone(i) ==
    /\ workers[i].pc = "select"
    /\ ctxDone
    /\ workers' = [workers EXCEPT ![i].pc = "exit"]
    /\ UNCHANGED <<cbVars, now, maxWorkers, links, pc, taskID, ctxDone, sem, result, ret,
                   storeVars, persistVars, waitVars, auxVars>>

\* checkLink, lines 311-325.
WCheckLink(i) ==
    /\ workers[i].pc = "checkLink"
    /\ LET g == checkLinkGate(breaker, links[i], now) IN
       /\ workers' = [workers EXCEPT
                        ![i].pc = IF g.go THEN "request" ELSE "store",
                        ![i].checked = TRUE,
                        ![i].host = g.host,
                        ![i].status = IF g.go THEN "" ELSE StatusNotAvailable,
                        ![i].cbCalls = IF g.asked THEN @ + 1 ELSE @]
       /\ IF g.asked
          THEN breaker' = g.r.cb /\ NoteAllow(g.host, g.r)
          ELSE UNCHANGED cbVars
    /\ UNCHANGED <<now, maxWorkers, links, pc, taskID, ctxDone, sem, result, ret,
                   storeVars, persistVars, waitVars, auxVars>>

\* Lines 335-340: the request is built and client.Do is entered.
WRequest(i) ==
    /\ workers[i].pc = "request"
    /\ workers' = [workers EXCEPT ![i].pc = "inflight", ![i].calls = @ + 1]
    /\ UNCHANGED <<cbVars, now, maxWorkers, links, pc, taskID, ctxDone, sem, result, ret,
                   storeVars, persistVars, waitVars, auxVars>>

\* Lines 366-373: after a failed attempt, the backoff wait unless it was the
\* last attempt.
AfterFailedAttempt(i) == IF i < Len(backoffs) - 1 THEN "backoff" ELSE "store"

\* Lines 344-353: client.Do returned an error.
WDoError(i) ==
    /\ workers[i].pc = "inflight"
    /\ breaker' = failure(breaker, workers[i].host, now)
    /\ NoteFailure(workers[i].host)
    /\ workers' = [workers EXCEPT
                     ![i].pc = IF ctxDone THEN "store" ELSE AfterFailedAttempt(workers[i].i),
                     ![i].status = StatusNotAvailable,
                     ![i].cbCalls = @ + 1,
                     ![i].seen = "other"]
    /\ UNCHANGED <<now, maxWorkers, links, pc, taskID, ctxDone, sem, result, ret,
                   storeVars, persistVars, waitVars, auxVars>>

\* Lines 354-364: client.Do returned a response.
WDoResponse(i, code) ==
    /\ workers[i].pc = "inflight"
    /\ IF IsAvailableCode(code)
       THEN /\ breaker' = success(breaker, workers[i].host)
            /\ NoteSuccess(workers[i].host)
            /\ workers' = [workers EXCEPT ![i].pc = "store",
                                          ![i].status = StatusAvailable,
                                          ![i].cbCalls = @ + 1,
                                          ![i].seen = Answered(@, code)]
       ELSE /\ breaker' = failure(breaker, workers[i].host, now)
            /\ NoteFailure(workers[i].host)
            /\ workers' = [workers EXCEPT ![i].pc = AfterFailedAttempt(workers[i].i),
                                          ![i].status = StatusNotAvailable,
                                          ![i].cbCalls = @ + 1,
                                          ![i].seen = Answered(@, code)]
    /\ UNCHANGED <<now, maxWorkers, links, pc, taskID, ctxDone, sem, result, ret,
                   storeVars, persistVars, waitVars, auxVars>>

\* Lines 367-372: the select between the context and time.After(d). A
\* context that is done when the select is entered wins (the timer has only
\* just been made); otherwise the timer fires and the next attempt follows.
WBackoff(i) ==
    /\ workers[i].pc = "backoff"
    /\ IF ctxDone
       THEN workers' = [workers EXCEPT ![i].pc = "store", ![i].status = StatusNotAvailable]
       ELSE workers' = [workers EXCEPT ![i].pc = "request",
                                       ![i].i = @ + 1,
                                       ![i].waits = Append(@, backoffs[workers[i].i + 1])]
    /\ UNCHANGED <<cbVars, now, maxWorkers, links, pc, taskID, ctxDone, sem, result, ret,
                   storeVars, persistVars, waitVars, auxVars>>

\* Lines 250-252, then the deferred permit release and wg.Done.
WStore(i) ==
    /\ workers[i].pc = "store"
    /\ result' = Put(result, links[i], workers[i].status)
    /\ sem' = sem - 1
    /\ workers' = [workers EXCEPT ![i].pc = "exit"]
    /\ UNCHANGED <<cbVars, now, maxWorkers, links, pc, taskID, ctxDone, ret,
                   storeVars, persistVars, waitVars, auxVars>>

AfterUpdate_ignoreErr(err) == "returned"

\* Lines 266-276: a failed synchronous update leads to the retry goroutine,
\* a successful one to the plain return.
AfterUpdate(err) == IF err # "nil" THEN "spawn" ELSE "returned"

\* Lines 260-266: wg.Wait returns, then the synchronous UpdateTaskResult.
CLUpdate ==
    /\ pc = "wait"
    /\ \A i \in LinkIdx : workers[i].pc = "exit"
    /\ \E appendOk \in BOOLEAN :
         LET u == UpdateTaskResult(store, taskID, StrResult(result), appendOk)
             a == StoreAppend(u, now)
         IN
         /\ store' = u.st
         /\ log' = a.entries
         /\ fileExists' = a.exists
         /\ rotatedFiles' = a.files
         /\ updLog' = Append(updLog, u.err = "nil")
         /\ pc' = AfterUpdate(u.err)
         /\ ret' = IF AfterUpdate(u.err) = "returned"
                   THEN [id |-> taskID, result |-> result, err |-> "nil"]
                   ELSE ret
    /\ UNCHANGED <<cbVars, now, maxWorkers, links, taskID, ctxDone, sem, workers, result,
                   persistVars, waitVars, repoPath, proc, hist, auxVars>>

\* Lines 267-273: persistWG.Add(1), the retry goroutine is started with a
\* copy of the result, and the call returns ErrResultPersistDeferred.
CLSpawn ==
    /\ pc = "spawn"
    /\ persistWG' = persistWG + 1
    /\ spawned' = spawned + 1
    /\ retrier' = [pc |-> "attempt", id |-> taskID, res |-> StrResult(result),
                   attempt |-> 1, backoff |-> 1, slept |-> << >>, outcomes |-> << >>]
    /\ ret' = [id |-> taskID, result |-> result, err |-> "deferred"]
    /\ pc' = "returned"
    /\ UNCHANGED <<cbVars, now, maxWorkers, links, taskID, ctxDone, sem, workers, result,
                   storeVars, waitVars, auxVars>>

\* ------------------------------------------------------------------ retrier

\* Lines 282-293, after a failed attempt: the sleep has been taken, the
\* backoff doubles, and the loop ends once attempt exceeds the limit.
AfterSleep(attempt) == IF attempt + 1 <= resultRetryAttempts THEN "attempt" ELSE "done"

AfterAttempt_noLastSleep(ok, attempt) ==
    IF ok \/ attempt >= resultRetryAttempts THEN "done" ELSE "sleep"

\* Lines 283-292: a successful attempt returns, a failed one sleeps.
AfterAttempt(ok, attempt) == IF ok THEN "done" ELSE "sleep"

\* Line 283: one UpdateTaskResult call of the retry loop.
RetryAttempt ==
    /\ retrier.pc = "attempt"
    /\ \E appendOk \in BOOLEAN :
         LET u == UpdateTaskResult(store, retrier.id, retrier.res, appendOk)
             a == StoreAppend(u, now)
         IN
         /\ store' = u.st
         /\ log' = a.entries
         /\ fileExists' = a.exists
         /\ rotatedFiles' = a.files
         /\ updLog' = Append(updLog, u.err = "nil")
         /\ retrier' = [retrier EXCEPT
                          !.pc = AfterAttempt(u.err = "nil", retrier.attempt),
                          !.outcomes = Append(@, u.err = "nil")]
         /\ persistWG' = IF AfterAttempt(u.err = "nil", retrier.attempt) = "done"
                         THEN persistWG - 1 ELSE persistWG
    /\ UNCHANGED <<cbVars, now, callVars, spawned, waitVars, repoPath, proc, hist, auxVars>>

\* Lines 289-291: time.Sleep(backoff); backoff *= 2; and the loop's
\* attempt++. Leaving the loop logs the give-up and the goroutine ends.
RetrySleep ==
    /\ retrier.pc = "sleep"
    /\ retrier' = [retrier EXCEPT
                     !.pc = AfterSleep(retrier.attempt),
                     !.slept = Append(@, retrier.backoff),
                     !.backoff = @ * 2,
                     !.attempt = @ + 1]
    /\ persistWG' = IF AfterSleep(retrier.attempt) = "done" THEN persistWG - 1 ELSE persistWG
    /\ UNCHANGED <<cbVars, now, callVars, storeVars, spawned, waitVars, auxVars>>

\* ------------------------------------------------------------------ Wait

WaitCanReturn_always(counter) == TRUE

\* sync.WaitGroup.Wait returns when the counter is zero.
WaitCanReturn(counter) == counter = 0

WaitCall ==
    /\ waitPc = "idle"
    /\ waitPc' = "waiting"
    /\ waitSeen' = (retrier.pc # "none")
    /\ UNCHANGED <<cbVars, now, callVars, storeVars, persistVars, auxVars>>

WaitReturn ==
    /\ waitPc = "waiting"
    /\ WaitCanReturn(persistWG)
    /\ waitPc' = "returned"
    /\ UNCHANGED <<cbVars, now, callVars, storeVars, persistVars, waitSeen, auxVars>>

\* ------------------------------------------------------------------ the service

L_a == <<"a">>
L_b == <<"b">>
L_p == <<"p">>
L_m == <<"m">>
L_n == <<"n">>
L_z == <<"z">>
L_path == <<"a", "/", "x">>
L_query == <<"a", "?", "x">>
L_frag == <<"a", "#", "x">>
L_port == <<"a", ":", "8">>
L_scheme == HTTP \o <<"a">>
L_empty == EmptyStr
L_blank == <<" ">>
L_priv == <<"1", "0", ".", "0", ".", "0", ".", "1">>
L_pub == <<"8", ".", "8", ".", "8", ".", "8">>

LinkPool == {L_a, L_b, L_p, L_m, L_n, L_z, L_path, L_query, L_frag, L_port, L_scheme,
             L_empty, L_blank, L_priv, L_pub}

\* The batches CheckLinks is called with: every single link of the pool, and
\* pairs with the same link twice, one host twice, two hosts, and a blocked
\* host next to an allowed one.
Pairs == {<<L_a, L_a>>, <<L_a, L_path>>, <<L_a, L_b>>, <<L_p, L_a>>}

\* The maxWorkers argument of service.New and the batch: single links with
\* one permit, pairs with one permit and with two, the default, and three
\* links on two permits.
Inputs == {[mw |-> 1, links |-> <<l>>] : l \in LinkPool}
          \cup {[mw |-> m, links |-> b] : m \in {1, 2}, b \in Pairs}
          \cup {[mw |-> 0, links |-> <<L_a, L_b>>]}
          \cup {[mw |-> 2, links |-> <<L_a, L_b, L_p>>]}

\* service.New: a maxWorkers <= 0 becomes 100; the breaker is made with
\* threshold 3 and cooldown 30s.
New(mw) == [maxWorkers |-> IF mw <= 0 THEN 100 ELSE mw,
            breaker    |-> newCircuitBreaker(3, 30)]

P_tasks == <<"t", "a", "s", "k", "s", ".", "j", "s", "o", "n">>

\* Nothing has been asked of the store.
NoHist == [ids |-> << >>, acked |-> EmptyMap, failed |-> {}, allOk |-> TRUE,
           calls |-> 0, restarts |-> 0, fresh |-> TRUE]

NoProbe == [pc |-> "none", host |-> EmptyStr, blocked |-> FALSE]

NoGot == [pc |-> "none", ids |-> << >>, tasks |-> << >>, err |-> "nil", n |-> 0]

\* sync.RWMutex, unlocked.
Unlocked == [writer |-> 0, readers |-> {}]

\* No report asked for, no job queued, no worker started.
ReportIdle ==
    /\ report = << >>
    /\ pool = [queue |-> << >>, workers |-> << >>]

\* No goroutine at the breaker but those of the one CheckLinks call.
GuardIdle ==
    /\ cbMu = 0
    /\ cbThreads = << >>

MultiIdle == calls = << >>

ConcIdle == ReportIdle /\ GuardIdle /\ MultiIdle

\* No isPrivateHost call under watch, no object handed out, no goroutine at
\* the store.
AuxIdle ==
    /\ probe = NoProbe
    /\ ConcIdle
    /\ heap = << >>
    /\ refs = EmptyMap
    /\ got = NoGot
    /\ mu = Unlocked
    /\ threads = << >>

\* The default tasks file, not there yet, and a store that has loaded it.
FilesIdle ==
    /\ repoPath = P_tasks
    /\ fileExists = FALSE
    /\ rotatedFiles = EmptyMap
    /\ proc = "up"
    /\ hist = NoHist

CallIdle ==
    /\ links = << >>
    /\ maxWorkers = 0
    /\ pc = "none"
    /\ taskID = 0
    /\ ctxDone = FALSE
    /\ sem = 0
    /\ workers = << >>
    /\ result = EmptyMap
    /\ ret = NoRet
    /\ updLog = << >>
    /\ persistWG = 0
    /\ retrier = NoRetrier
    /\ spawned = 0
    /\ waitPc = "idle"
    /\ waitSeen = FALSE

SvcIdle ==
    /\ CallIdle
    /\ AuxIdle
    /\ store = NewFileStorage
    /\ log = << >>
    /\ FilesIdle

Init ==
    /\ \E in \in Inputs :
         /\ maxWorkers = New(in.mw).maxWorkers
         /\ breaker = New(in.mw).breaker
         /\ links = in.links
    /\ now = 0
    /\ cbLast = NoCall
    /\ recorded = EmptyMap
    /\ lastFailAt = EmptyMap
    /\ pc = "start"
    /\ taskID = 0
    /\ ctxDone = FALSE
    /\ sem = 0
    /\ workers = [i \in DOMAIN links |-> NewWorker]
    /\ result = EmptyMap
    /\ ret = NoRet
    /\ store = NewFileStorage
    /\ log = << >>
    /\ updLog = << >>
    /\ persistWG = 0
    /\ retrier = NoRetrier
    /\ spawned = 0
    /\ waitPc = "idle"
    /\ waitSeen = FALSE
    /\ FilesIdle
    /\ AuxIdle

Next ==
    \/ Tick
    \/ CLCreate
    \/ CLDispatch
    \/ Deadline
    \/ \E i \in LinkIdx : WAcquire(i)
    \/ \E i \in LinkIdx : WCtxDone(i)
    \/ \E i \in LinkIdx : WCheckLink(i)
    \/ \E i \in LinkIdx : WRequest(i)
    \/ \E i \in LinkIdx : WDoError(i)
    \/ \E i \in LinkIdx, code \in StatusCodes : WDoResponse(i, code)
    \/ \E i \in LinkIdx : WBackoff(i)
    \/ \E i \in LinkIdx : WStore(i)
    \/ CLUpdate
    \/ CLSpawn
    \/ RetryAttempt
    \/ RetrySleep
    \/ WaitCall
    \/ WaitReturn

Spec == Init /\ [][Next]_vars

\* ------------------------------------------------------------------ the breaker alone

\* newCircuitBreaker is called with any threshold 0..3 and a cooldown of 0
\* (defaulted to 30s) or 20s.
BInit ==
    /\ \E th \in 0..3, cd \in {0, 20} : breaker = newCircuitBreaker(th, cd)
    /\ now = 0
    /\ cbLast = NoCall
    /\ recorded = EmptyMap
    /\ lastFailAt = EmptyMap
    /\ SvcIdle

BNext ==
    \/ BTick
    \/ \E h \in BHosts : BAllow(h)
    \/ \E h \in BHosts : BSuccess(h)
    \/ \E h \in BHosts : BFailure(h)

SpecBreaker == BInit /\ [][BNext]_vars

\* ------------------------------------------------------------------ the breaker under concurrent calls

\* The goroutines that call the breaker at the same time.
CbGoroutines == {1, 2}

IdleCb == [pc |-> "idle", op |-> "none", host |-> EmptyStr, local |-> 0, ok |-> TRUE]

CbOps == {"allow", "success", "failure"}

CbCanLock_always(m) == TRUE

\* sync.Mutex.Lock goes through when nobody holds the mutex.
CbCanLock(m) == m = 0

CbInit ==
    /\ breaker = newCircuitBreaker(2, 20)
    /\ now = 0
    /\ cbLast = NoCall
    /\ recorded = EmptyMap
    /\ lastFailAt = EmptyMap
    /\ CallIdle
    /\ store = NewFileStorage
    /\ log = << >>
    /\ FilesIdle
    /\ probe = NoProbe
    /\ heap = << >>
    /\ refs = EmptyMap
    /\ got = NoGot
    /\ mu = Unlocked
    /\ threads = << >>
    /\ ReportIdle
    /\ MultiIdle
    /\ cbMu = 0
    /\ cbThreads = [g \in CbGoroutines |-> IdleCb]

\* Of the bookkeeping only the failure() calls per host since the last
\* reset are kept here.
CbFrame == <<cbLast, lastFailAt, callVars, storeVars, persistVars, waitVars, probe, getVars,
             lockVars, reportVars, multiVars>>

\* A goroutine calls allow, success or failure: with the empty host the
\* call returns before the mutex, else it goes for the mutex.
CbCall(g, op, h) ==
    /\ cbThreads[g].pc \in {"idle", "returned"}
    /\ op = "failure" => Get(recorded, h, 0) < MaxRecorded
    /\ cbThreads' = [cbThreads EXCEPT ![g] =
          [pc |-> IF h = EmptyStr THEN "returned" ELSE "lock",
           op |-> op, host |-> h, local |-> 0, ok |-> TRUE]]
    /\ UNCHANGED <<breaker, recorded, now, cbMu, CbFrame>>

\* cb.mu.Lock().
CbLock(g) ==
    /\ cbThreads[g].pc = "lock"
    /\ CbCanLock(cbMu)
    /\ cbMu' = g
    /\ cbThreads' = [cbThreads EXCEPT ![g].pc = "held"]
    /\ UNCHANGED <<breaker, recorded, now, CbFrame>>

\* failure, the read of cb.failures[host]++.
CbRead(g) ==
    /\ cbThreads[g].pc = "held"
    /\ cbThreads[g].op = "failure"
    /\ cbThreads' = [cbThreads EXCEPT ![g].pc = "write",
                                      ![g].local = Get(breaker.failures, cbThreads[g].host, 0)]
    /\ UNCHANGED <<breaker, recorded, now, cbMu, CbFrame>>

\* failure, the write of cb.failures[host]++ with the value read, and
\* cb.lastSeen[host] = time.Now().
CbWrite(g) ==
    /\ cbThreads[g].pc = "write"
    /\ LET h == cbThreads[g].host
           seen == [breaker EXCEPT !.failures = Put(@, h, cbThreads[g].local)]
       IN /\ breaker' = failure(seen, h, now)
          /\ recorded' = Put(recorded, h, Get(recorded, h, 0) + 1)
    /\ cbThreads' = [cbThreads EXCEPT ![g].pc = "unlock"]
    /\ UNCHANGED <<now, cbMu, CbFrame>>

\* The body of allow or of success.
CbApply(g) ==
    /\ cbThreads[g].pc = "held"
    /\ cbThreads[g].op \in {"allow", "success"}
    /\ LET h == cbThreads[g].host
           r == allow(breaker, h, now)
       IN IF cbThreads[g].op = "allow"
          THEN /\ breaker' = r.cb
               /\ recorded' = IF r.cb # breaker THEN Del(recorded, h) ELSE recorded
               /\ cbThreads' = [cbThreads EXCEPT ![g].pc = "unlock", ![g].ok = r.ok]
          ELSE /\ breaker' = success(breaker, h)
               /\ recorded' = Del(recorded, h)
               /\ cbThreads' = [cbThreads EXCEPT ![g].pc = "unlock"]
    /\ UNCHANGED <<now, cbMu, CbFrame>>

\* The deferred cb.mu.Unlock(), and the return.
CbUnlock(g) ==
    /\ cbThreads[g].pc = "unlock"
    /\ cbMu' = 0
    /\ cbThreads' = [cbThreads EXCEPT ![g].pc = "returned"]
    /\ UNCHANGED <<breaker, recorded, now, CbFrame>>

CbTick ==
    /\ now + BTickStep <= BMaxNow
    /\ now' = now + BTickStep
    /\ UNCHANGED <<breaker, recorded, cbMu, cbThreads, CbFrame>>

CbNext ==
    \/ CbTick
    \/ \E g \in CbGoroutines, op \in CbOps, h \in BHosts : CbCall(g, op, h)
    \/ \E g \in CbGoroutines : CbLock(g)
    \/ \E g \in CbGoroutines : CbRead(g)
    \/ \E g \in CbGoroutines : CbWrite(g)
    \/ \E g \in CbGoroutines : CbApply(g)
    \/ \E g \in CbGoroutines : CbUnlock(g)

SpecBreakerConc == CbInit /\ [][CbNext]_vars

\* ------------------------------------------------------------------ CheckLinks calls side by side

\* The CheckLinks calls that run at the same time on one Service.
CallIds == {1, 2}

\* The batches of the calls, one link or two for the first call and one
\* link for the second, and the maxWorkers of the service.
MultiLinks(k) == IF k = 1 THEN {<<L_a>>, <<L_a, L_b>>} ELSE {<<L_a>>}

MultiWorkers == {1, 2}

\* What the transport answers in these runs.
MultiCodes == {200, 503}

IdleCall == [pc |-> "idle", links |-> << >>, taskID |-> 0, ctxDone |-> FALSE, sem |-> 0,
             workers |-> << >>, result |-> EmptyMap, err |-> "pending"]

MWorker == [pc |-> "select", i |-> 0, host |-> EmptyStr, status |-> ""]

MultiInit ==
    /\ \E mw \in MultiWorkers :
         /\ maxWorkers = New(mw).maxWorkers
         /\ breaker = New(mw).breaker
    /\ now = 0
    /\ cbLast = NoCall
    /\ recorded = EmptyMap
    /\ lastFailAt = EmptyMap
    /\ links = << >>
    /\ pc = "none"
    /\ taskID = 0
    /\ ctxDone = FALSE
    /\ sem = 0
    /\ workers = << >>
    /\ result = EmptyMap
    /\ ret = NoRet
    /\ store = NewFileStorage
    /\ log = << >>
    /\ updLog = << >>
    /\ persistWG = 0
    /\ retrier = NoRetrier
    /\ spawned = 0
    /\ waitPc = "idle"
    /\ waitSeen = FALSE
    /\ FilesIdle
    /\ probe = NoProbe
    /\ heap = << >>
    /\ refs = EmptyMap
    /\ got = NoGot
    /\ mu = Unlocked
    /\ threads = << >>
    /\ ReportIdle
    /\ GuardIdle
    /\ calls = [k \in CallIds |-> IdleCall]

\* What the calls leave alone: the bookkeeping of the breaker, the single
\* call of Spec, Wait, and the retry goroutines once they are started.
MultiFrame == <<cbLast, recorded, lastFailAt, now, maxWorkers, links, pc, taskID, ctxDone, sem,
                workers, result, ret, retrier, waitVars, repoPath, proc, hist, probe, getVars,
                lockVars, reportVars, breakerVars>>

\* Lines 228-258: CreateTask; an error ends the call, else the context, the
\* call's own result map and its own sem are made and one goroutine per
\* link is started, each at the select.
MCreate(k, lnks) ==
    /\ calls[k].pc = "idle"
    /\ \E appendOk \in BOOLEAN :
         LET c == CreateTask(store, lnks, appendOk)
             a == RepoAppend(repoPath, fileExists, log, rotatedFiles, c.entry,
                             IF appendOk THEN "ok" ELSE "open", now)
         IN
         /\ store' = c.st
         /\ log' = a.entries
         /\ fileExists' = a.exists
         /\ rotatedFiles' = a.files
         /\ calls' = [calls EXCEPT ![k] =
               IF AfterCreate(c.err) = "returned"
               THEN [@ EXCEPT !.pc = "returned", !.links = lnks, !.err = "create"]
               ELSE [@ EXCEPT !.pc = "wait", !.links = lnks, !.taskID = c.id,
                              !.workers = [i \in DOMAIN lnks |-> MWorker]]]
    /\ UNCHANGED <<breaker, MultiFrame, updLog, persistWG, spawned>>

\* The context of call k ends.
MDeadline(k) ==
    /\ calls[k].pc = "wait"
    /\ ~calls[k].ctxDone
    /\ calls' = [calls EXCEPT ![k].ctxDone = TRUE]
    /\ UNCHANGED <<breaker, MultiFrame, storeVars, persistWG, spawned>>

\* Line 247: the goroutine takes a permit of the sem of its call.
MAcquire(k, i) ==
    /\ calls[k].pc = "wait"
    /\ calls[k].workers[i].pc = "select"
    /\ CanAcquire(calls[k].sem, maxWorkers)
    /\ calls' = [calls EXCEPT ![k].sem = @ + 1, ![k].workers[i].pc = "checkLink"]
    /\ UNCHANGED <<breaker, MultiFrame, storeVars, persistWG, spawned>>

\* Lines 253-254.
MCtxDone(k, i) ==
    /\ calls[k].pc = "wait"
    /\ calls[k].workers[i].pc = "select"
    /\ calls[k].ctxDone
    /\ calls' = [calls EXCEPT ![k].workers[i].pc = "exit"]
    /\ UNCHANGED <<breaker, MultiFrame, storeVars, persistWG, spawned>>

\* checkLink, lines 311-325.
MCheckLink(k, i) ==
    /\ calls[k].pc = "wait"
    /\ calls[k].workers[i].pc = "checkLink"
    /\ LET g == checkLinkGate(breaker, calls[k].links[i], now) IN
       /\ calls' = [calls EXCEPT
                      ![k].workers[i].pc = IF g.go THEN "request" ELSE "store",
                      ![k].workers[i].host = g.host,
                      ![k].workers[i].status = IF g.go THEN "" ELSE StatusNotAvailable]
       /\ breaker' = IF g.asked THEN g.r.cb ELSE breaker
    /\ UNCHANGED <<MultiFrame, storeVars, persistWG, spawned>>

\* Lines 335-340: client.Do is entered.
MRequest(k, i) ==
    /\ calls[k].pc = "wait"
    /\ calls[k].workers[i].pc = "request"
    /\ calls' = [calls EXCEPT ![k].workers[i].pc = "inflight"]
    /\ UNCHANGED <<breaker, MultiFrame, storeVars, persistWG, spawned>>

\* Lines 344-353: client.Do returned an error.
MDoError(k, i) ==
    /\ calls[k].pc = "wait"
    /\ calls[k].workers[i].pc = "inflight"
    /\ breaker' = failure(breaker, calls[k].workers[i].host, now)
    /\ calls' = [calls EXCEPT
                   ![k].workers[i].pc = IF calls[k].ctxDone THEN "store"
                                        ELSE AfterFailedAttempt(calls[k].workers[i].i),
                   ![k].workers[i].status = StatusNotAvailable]
    /\ UNCHANGED <<MultiFrame, storeVars, persistWG, spawned>>

\* Lines 354-364: client.Do returned a response.
MDoResponse(k, i, code) ==
    /\ calls[k].pc = "wait"
    /\ calls[k].workers[i].pc = "inflight"
    /\ IF IsAvailableCode(code)
       THEN /\ breaker' = success(breaker, calls[k].workers[i].host)
            /\ calls' = [calls EXCEPT ![k].workers[i].pc = "store",
                                      ![k].workers[i].status = StatusAvailable]
       ELSE /\ breaker' = failure(breaker, calls[k].workers[i].host, now)
            /\ calls' = [calls EXCEPT
                           ![k].workers[i].pc = AfterFailedAttempt(calls[k].workers[i].i),
                           ![k].workers[i].status = StatusNotAvailable]
    /\ UNCHANGED <<MultiFrame, storeVars, persistWG, spawned>>

\* Lines 367-372.
MBackoff(k, i) ==
    /\ calls[k].pc = "wait"
    /\ calls[k].workers[i].pc = "backoff"
    /\ calls' = [calls EXCEPT ![k].workers[i] =
          IF calls[k].ctxDone
          THEN [@ EXCEPT !.pc = "store", !.status = StatusNotAvailable]
          ELSE [@ EXCEPT !.pc = "request", !.i = @ + 1]]
    /\ UNCHANGED <<breaker, MultiFrame, storeVars, persistWG, spawned>>

\* Lines 250-252, then the deferred permit release and wg.Done.
MStore(k, i) ==
    /\ calls[k].pc = "wait"
    /\ calls[k].workers[i].pc = "store"
    /\ calls' = [calls EXCEPT
                   ![k].result = Put(@, calls[k].links[i], calls[k].workers[i].status),
                   ![k].sem = @ - 1,
                   ![k].workers[i].pc = "exit"]
    /\ UNCHANGED <<breaker, MultiFrame, storeVars, persistWG, spawned>>

\* Lines 260-276: wg.Wait returns, UpdateTaskResult, and on its failure
\* persistWG.Add(1) and the start of the retry goroutine.
MUpdate(k) ==
    /\ calls[k].pc = "wait"
    /\ \A i \in DOMAIN calls[k].workers : calls[k].workers[i].pc = "exit"
    /\ \E appendOk \in BOOLEAN :
         LET u == UpdateTaskResult(store, calls[k].taskID, StrResult(calls[k].result), appendOk)
             a == StoreAppend(u, now)
             deferred == AfterUpdate(u.err) = "spawn"
         IN
         /\ store' = u.st
         /\ log' = a.entries
         /\ fileExists' = a.exists
         /\ rotatedFiles' = a.files
         /\ updLog' = Append(updLog, u.err = "nil")
         /\ persistWG' = IF deferred THEN persistWG + 1 ELSE persistWG
         /\ spawned' = IF deferred THEN spawned + 1 ELSE spawned
         /\ calls' = [calls EXCEPT ![k].pc = "returned",
                                   ![k].err = IF deferred THEN "deferred" ELSE "nil"]
    /\ UNCHANGED <<breaker, MultiFrame>>

MultiNext ==
    \/ \E k \in CallIds : \E lnks \in MultiLinks(k) : MCreate(k, lnks)
    \/ \E k \in CallIds : MDeadline(k)
    \/ \E k \in CallIds : \E i \in DOMAIN calls[k].workers : MAcquire(k, i)
    \/ \E k \in CallIds : \E i \in DOMAIN calls[k].workers : MCtxDone(k, i)
    \/ \E k \in CallIds : \E i \in DOMAIN calls[k].workers : MCheckLink(k, i)
    \/ \E k \in CallIds : \E i \in DOMAIN calls[k].workers : MRequest(k, i)
    \/ \E k \in CallIds : \E i \in DOMAIN calls[k].workers : MDoError(k, i)
    \/ \E k \in CallIds : \E i \in DOMAIN calls[k].workers, code \in MultiCodes : MDoResponse(k, i, code)
    \/ \E k \in CallIds : \E i \in DOMAIN calls[k].workers : MBackoff(k, i)
    \/ \E k \in CallIds : \E i \in DOMAIN calls[k].workers : MStore(k, i)
    \/ \E k \in CallIds : MUpdate(k)

SpecMulti == MultiInit /\ [][MultiNext]_vars

\* ------------------------------------------------------------------ the store alone

\* What CreateTask and UpdateTaskResult are called with: a batch of two
\* links, and an empty result or one with a status.
StoreLinks == {<<L_b, L_a>>}

R_a == Put(EmptyMap, L_a, StatusAvailable)

StoreResults == {EmptyMap, R_a}

\* The IDs UpdateTaskResult is called with: those of the index and one that
\* is not there.
UpdateIDs == DOMAIN store.tasks \cup {store.nextID}

\* One CreateTask call, with the Append it makes.
SCreate(lnks, outcome) ==
    /\ proc = "up"
    /\ hist.calls < MaxCalls
    /\ LET entry == CreateTask(store, lnks, TRUE).entry
           a     == RepoAppend(repoPath, fileExists, log, rotatedFiles, entry, outcome, now)
           c     == CreateTask(store, lnks, ~a.err)
       IN
       /\ store' = c.st
       /\ log' = a.entries
       /\ fileExists' = a.exists
       /\ rotatedFiles' = a.files
       /\ hist' = [hist EXCEPT
                     !.calls  = @ + 1,
                     !.fresh  = FALSE,
                     !.allOk  = @ /\ ~c.err,
                     !.ids    = IF c.err THEN @ ELSE Append(@, c.id),
                     !.failed = IF c.err THEN @ \cup {c.id} ELSE @ \ {c.id},
                     !.acked  = IF c.err THEN @
                                ELSE Put(@, c.id, [links |-> lnks, result |-> EmptyMap])]
    /\ UNCHANGED <<cbVars, now, callVars, updLog, persistVars, waitVars, repoPath, proc, auxVars>>

\* One UpdateTaskResult call, with the Append it makes when the task is in
\* the index.
SUpdate(id, res, outcome) ==
    /\ proc = "up"
    /\ hist.calls < MaxCalls
    /\ LET u0 == UpdateTaskResult(store, id, res, TRUE)
           a  == IF u0.err = "not found"
                 THEN [exists |-> fileExists, entries |-> log, files |-> rotatedFiles,
                       err |-> TRUE]
                 ELSE RepoAppend(repoPath, fileExists, log, rotatedFiles, u0.entry,
                                 outcome, now)
           u  == UpdateTaskResult(store, id, res, ~a.err)
       IN
       /\ store' = u.st
       /\ log' = a.entries
       /\ fileExists' = a.exists
       /\ rotatedFiles' = a.files
       /\ hist' = [hist EXCEPT
                     !.calls = @ + 1,
                     !.fresh = FALSE,
                     !.allOk = @ /\ u.err = "nil",
                     !.acked = IF u.err = "nil" /\ id \in DOMAIN @
                               THEN [@ EXCEPT ![id].result = res]
                               ELSE @]
    /\ UNCHANGED <<cbVars, now, callVars, updLog, persistVars, waitVars, repoPath, proc, auxVars>>

\* The process ends and is started again: a new FileStorage runs Load on the
\* tasks file; an error of Load ends the start-up.
SRestart ==
    /\ hist.restarts < MaxRestarts
    /\ LET l == Load(NewFileStorage, fileExists, log) IN
       /\ store' = l.st
       /\ proc' = IF l.err THEN "down" ELSE "up"
    /\ hist' = [hist EXCEPT !.restarts = @ + 1, !.fresh = TRUE]
    /\ UNCHANGED <<cbVars, now, callVars, log, updLog, persistVars, waitVars,
                   repoPath, fileExists, rotatedFiles, auxVars>>

\* A new store on the default tasks file, which is not there yet.
StoreInit ==
    /\ breaker = newCircuitBreaker(3, 30)
    /\ now = 0
    /\ cbLast = NoCall
    /\ recorded = EmptyMap
    /\ lastFailAt = EmptyMap
    /\ CallIdle
    /\ AuxIdle
    /\ repoPath = P_tasks
    /\ fileExists = FALSE
    /\ log = << >>
    /\ rotatedFiles = EmptyMap
    /\ store = Load(NewFileStorage, fileExists, log).st
    /\ proc = "up"
    /\ hist = NoHist

StoreNext ==
    \/ \E lnks \in StoreLinks, o \in AppendOutcomes : SCreate(lnks, o)
    \/ \E id \in UpdateIDs, res \in StoreResults, o \in AppendOutcomes : SUpdate(id, res, o)
    \/ SRestart

SpecStore == StoreInit /\ [][StoreNext]_vars

\* ------------------------------------------------------------------ Load alone

R_n == Put(EmptyMap, L_a, StatusNotAvailable)

\* The lines a tasks file is made of: create entries with and without a
\* task, update entries with and without a task ID, and, as a last line, one
\* that is cut short.
FileEntries ==
    {[op |-> "create", task |-> [id |-> i, links |-> <<L_a>>, result |-> r]] :
        i \in {1, 2, 4}, r \in {EmptyMap, R_a}}
    \cup {[op |-> "create"]}
    \cup {[op |-> "update", task_id |-> i, result |-> r] :
        i \in {0, 1, 2, 4}, r \in {EmptyMap, R_a, R_n}}

FileLines == {[e |-> x, ts |-> 0] : x \in FileEntries}

RECURSIVE SeqsUpTo(_, _)
SeqsUpTo(S, n) ==
    IF n = 0 THEN {<< >>}
    ELSE SeqsUpTo(S, n - 1)
         \cup {Append(q, x) : q \in {w \in SeqsUpTo(S, n - 1) : Len(w) = n - 1}, x \in S}

\* A process about to start on a tasks file that is missing, or holds any
\* lines, the last of which may be cut short.
LoadInit ==
    /\ breaker = newCircuitBreaker(3, 30)
    /\ now = 0
    /\ cbLast = NoCall
    /\ recorded = EmptyMap
    /\ lastFailAt = EmptyMap
    /\ CallIdle
    /\ AuxIdle
    /\ repoPath = P_tasks
    /\ rotatedFiles = EmptyMap
    /\ hist = NoHist
    /\ proc = "boot"
    /\ store = NewFileStorage
    /\ \E f \in SeqsUpTo(FileLines, MaxEntries), torn \in BOOLEAN, there \in BOOLEAN :
         /\ fileExists = there
         /\ log = IF ~there THEN << >>
                  ELSE IF torn /\ f # << >>
                  THEN [f EXCEPT ![Len(f)] = [e |-> Torn, ts |-> 0]]
                  ELSE f

\* Start-up: Load on a new FileStorage.
LLoad ==
    /\ proc = "boot"
    /\ LET l == Load(store, fileExists, log) IN
       /\ store' = l.st
       /\ proc' = IF l.err THEN "down" ELSE "up"
    /\ UNCHANGED <<cbVars, now, callVars, log, updLog, persistVars, waitVars,
                   repoPath, fileExists, rotatedFiles, hist, auxVars>>

LoadNext == LLoad

SpecLoad == LoadInit /\ [][LoadNext]_vars

\* ------------------------------------------------------------------ the guard alone

\* First and second octets on and around the edges of the private ranges.
FirstOctets == {9, 10, 11, 126, 127, 128, 168, 169, 170, 171, 172, 173, 191, 192, 193}

SecondOctets == {0, 15, 16, 17, 30, 31, 32, 167, 168, 169, 253, 254, 255}

\* The hosts isPrivateHost is called with: literal IPv4 addresses, the names
\* of the resolver, a name that does not resolve, the empty host, and a
\* dotted name that is not an address.
GuardHosts ==
    {IPString(<<a, b, 0, 1>>) : a \in FirstOctets, b \in SecondOctets}
        \cup {L_a, L_b, L_p, L_m, L_z, L_n, EmptyStr, <<"1", "0", ".", "0", ".", "1">>}

GuardInit ==
    /\ breaker = newCircuitBreaker(3, 30)
    /\ now = 0
    /\ cbLast = NoCall
    /\ recorded = EmptyMap
    /\ lastFailAt = EmptyMap
    /\ CallIdle
    /\ store = NewFileStorage
    /\ log = << >>
    /\ FilesIdle
    /\ heap = << >>
    /\ refs = EmptyMap
    /\ got = NoGot
    /\ mu = Unlocked
    /\ threads = << >>
    /\ ConcIdle
    /\ \E h \in GuardHosts : probe = [pc |-> "called", host |-> h, blocked |-> FALSE]

\* checkLink, line 320: the call of isPrivateHost returns.
GIsPrivateHost ==
    /\ probe.pc = "called"
    /\ probe' = [probe EXCEPT !.pc = "returned", !.blocked = isPrivateHost(probe.host)]
    /\ UNCHANGED <<cbVars, now, callVars, storeVars, persistVars, waitVars, getVars, lockVars, concVars>>

GuardNext == GIsPrivateHost

SpecGuard == GuardInit /\ [][GuardNext]_vars

\* ------------------------------------------------------------------ GetTasks alone

\* Slices and maps are objects with an address: a Task of the index and a
\* TaskDTO hold the addresses of their Links and Result, and a write through
\* an address is seen by every holder of it. Address 0 is nil.

MaxGets == 2
MaxID == 3

Min(S) == CHOOSE x \in S : \A y \in S : x <= y

RECURSIVE Ascending(_)
Ascending(S) == IF S = {} THEN << >> ELSE <<Min(S)>> \o Ascending(S \ {Min(S)})

\* The object at an address; nil reads as the nil map.
Deref(h, a) == IF a = 0 THEN NilMap ELSE h[a]

\* The index as the objects say it is.
View(h, r) ==
    [id \in DOMAIN r |->
        [id |-> id, links |-> Deref(h, r[id].links), result |-> Deref(h, r[id].result)]]

\* The objects of an index: for the k-th task, in ID order, Links at address
\* 2k-1 and Result at 2k (no object for a nil Result).
ObjectsOf(st) ==
    LET ids == Ascending(DOMAIN st.tasks) IN
    [heap |-> [a \in 1..(2 * Len(ids)) |->
                  IF a % 2 = 1 THEN st.tasks[ids[(a + 1) \div 2]].links
                               ELSE st.tasks[ids[a \div 2]].result],
     refs |-> [id \in DOMAIN st.tasks |->
                  LET k == CHOOSE j \in 1..Len(ids) : ids[j] = id IN
                  [links  |-> 2 * k - 1,
                   result |-> IF st.tasks[id].result = NilMap THEN 0 ELSE 2 * k]]]

\* copyMap on addresses: nil for nil, else a new map with the same entries.
copyMapAt(h, a) ==
    IF a = 0 THEN [heap |-> h, addr |-> 0]
    ELSE [heap |-> Append(h, h[a]), addr |-> Len(h) + 1]

taskToDTOAt_alias(h, id, r) ==
    [heap |-> h, dto |-> [id |-> id, links |-> r.links, result |-> r.result]]

\* taskToDTO on addresses: Links is appended to a nil slice, which makes a
\* new backing array, and Result is copied by copyMap.
taskToDTOAt(h, id, r) ==
    LET l == [heap |-> Append(h, h[r.links]), addr |-> Len(h) + 1]
        m == copyMapAt(l.heap, r.result)
    IN [heap |-> m.heap, dto |-> [id |-> id, links |-> l.addr, result |-> m.addr]]

\* GetTasks on addresses: the loop over ids, skipping those not in the
\* index; the error it returns is always nil.
RECURSIVE GetTasksAt(_, _, _)
GetTasksAt(h, r, ids) ==
    IF ids = << >> THEN [heap |-> h, res |-> << >>, err |-> "nil"]
    ELSE IF Head(ids) \in DOMAIN r
    THEN LET d    == taskToDTOAt(h, Head(ids), r[Head(ids)])
             rest == GetTasksAt(d.heap, r, Tail(ids))
         IN [heap |-> rest.heap, res |-> <<d.dto>> \o rest.res, err |-> "nil"]
    ELSE GetTasksAt(h, r, Tail(ids))

\* The indexes GetTasks is called on: empty, one task without a result, two
\* tasks of which one has a result, and two indexes as Load leaves them: a
\* task whose result was read back as nil, and a task 2 without a task 1.
GetStores ==
    LET one   == CreateTask(NewFileStorage, <<L_b, L_a>>, TRUE)
        two   == CreateTask(one.st, <<L_b, L_a>>, TRUE)
        upd   == UpdateTaskResult(two.st, 1, R_a, TRUE)
        empty == UpdateTaskResult(one.st, 1, EmptyMap, TRUE)
    IN {NewFileStorage, one.st, upd.st,
        Load(NewFileStorage, TRUE,
             <<[e |-> one.entry, ts |-> 0], [e |-> empty.entry, ts |-> 0]>>).st,
        Load(NewFileStorage, TRUE, <<[e |-> two.entry, ts |-> 0]>>).st}

\* The ids argument: up to two IDs, present or not, also the same twice.
GetArgs == {<< >>} \cup {<<i>> : i \in 1..MaxID} \cup {<<i, j>> : i, j \in 1..MaxID}

GetInit ==
    /\ breaker = newCircuitBreaker(3, 30)
    /\ now = 0
    /\ cbLast = NoCall
    /\ recorded = EmptyMap
    /\ lastFailAt = EmptyMap
    /\ CallIdle
    /\ log = << >>
    /\ FilesIdle
    /\ probe = NoProbe
    /\ ConcIdle
    /\ mu = Unlocked
    /\ threads = << >>
    /\ got = NoGot
    /\ \E st \in GetStores :
         /\ store = st
         /\ heap = ObjectsOf(st).heap
         /\ refs = ObjectsOf(st).refs

\* One GetTasks call.
GGetTasks(ids) ==
    /\ got.n < MaxGets
    /\ LET g == GetTasksAt(heap, refs, ids) IN
       /\ heap' = g.heap
       /\ got' = [pc |-> "returned", ids |-> ids, tasks |-> g.res, err |-> g.err,
                  n |-> got.n + 1]
    /\ store' = [store EXCEPT !.tasks = View(heap', refs)]
    /\ UNCHANGED <<cbVars, now, callVars, log, updLog, fileVars, persistVars, waitVars,
                   probe, refs, lockVars, concVars>>

\* The caller writes through an address it holds: every holder of the
\* address sees the new object.
Write(a, v) ==
    /\ a # 0
    /\ heap[a] # v
    /\ heap' = [heap EXCEPT ![a] = v]
    /\ store' = [store EXCEPT !.tasks = View(heap', refs)]
    /\ UNCHANGED <<cbVars, now, callVars, log, updLog, fileVars, persistVars, waitVars,
                   probe, refs, got, lockVars, concVars>>

\* The caller of GetTasks changes an element of the Links of a task it got.
GWriteLinks(k) ==
    /\ k \in DOMAIN got.tasks
    /\ got.tasks[k].links # 0
    /\ Write(got.tasks[k].links, [heap[got.tasks[k].links] EXCEPT ![1] = L_n])

\* The caller of GetTasks sets an entry of the Result of a task it got; a
\* nil Result cannot be written to.
GWriteResult(k) ==
    /\ k \in DOMAIN got.tasks
    /\ got.tasks[k].result # 0
    /\ Write(got.tasks[k].result, Put(heap[got.tasks[k].result], L_a, StatusNotAvailable))

GetNext ==
    \/ \E ids \in GetArgs : GGetTasks(ids)
    \/ \E k \in 1..2 : GWriteLinks(k)
    \/ \E k \in 1..2 : GWriteResult(k)

SpecGet == GetInit /\ [][GetNext]_vars

\* ------------------------------------------------------------------ the store under concurrent calls

\* Goroutines call CreateTask, UpdateTaskResult and GetTasks on one
\* FileStorage; every statement between Lock and Unlock is a step of its own.

\* Two goroutines, enough for every pair of calls to overlap.
Threads == {1, 2}

IdleThread == [pc |-> "idle", op |-> "none", id |-> 0, arg |-> << >>, err |-> "nil",
               known |-> FALSE, overlap |-> FALSE]

\* The failures of Append the goroutines meet: none, or OpenFile fails.
ConcOutcomes == {"ok", "open"}

ConcGetArgs == {<< >>, <<1>>}

\* The IDs successful CreateTask calls have returned.
Returned == {hist.ids[k] : k \in DOMAIN hist.ids}

CanLock_always(m) == TRUE

\* sync.RWMutex.Lock goes through when no writer and no reader holds it.
CanLock(m) == m.writer = 0 /\ m.readers = {}

\* sync.RWMutex.RLock goes through when no writer holds it.
CanRLock(m) == m.writer = 0

ConcInit ==
    /\ breaker = newCircuitBreaker(3, 30)
    /\ now = 0
    /\ cbLast = NoCall
    /\ recorded = EmptyMap
    /\ lastFailAt = EmptyMap
    /\ CallIdle
    /\ store = NewFileStorage
    /\ log = << >>
    /\ FilesIdle
    /\ probe = NoProbe
    /\ ConcIdle
    /\ heap = << >>
    /\ refs = EmptyMap
    /\ got = NoGot
    /\ mu = Unlocked
    /\ threads = [t \in Threads |-> IdleThread]

\* A goroutine calls one of the three methods and arrives at the mutex.
TCall(t, op, id, arg) ==
    /\ threads[t].pc = "idle"
    /\ hist.calls < MaxCalls
    /\ threads' = [threads EXCEPT ![t] =
                      [pc |-> "lock", op |-> op, id |-> id, arg |-> arg, err |-> "nil",
                       known |-> op = "update" /\ id \in Returned,
                       overlap |-> \E u \in Threads \ {t} : threads[u].pc # "idle"]]
    /\ hist' = [hist EXCEPT !.calls = @ + 1, !.fresh = FALSE]
    /\ UNCHANGED <<cbVars, now, callVars, store, log, updLog, repoPath, fileExists,
                   rotatedFiles, proc, persistVars, waitVars, probe, getVars, mu, concVars>>

\* s.mu.Lock() of CreateTask and UpdateTaskResult.
TLock(t) ==
    /\ threads[t].pc = "lock"
    /\ threads[t].op \in {"create", "update"}
    /\ CanLock(mu)
    /\ mu' = [mu EXCEPT !.writer = t]
    /\ threads' = [threads EXCEPT ![t].pc = IF threads[t].op = "create" THEN "id" ELSE "lookup"]
    /\ UNCHANGED <<cbVars, now, callVars, storeVars, persistVars, waitVars, probe, getVars, concVars>>

\* s.mu.RLock() of GetTasks.
TRLock(t) ==
    /\ threads[t].pc = "lock"
    /\ threads[t].op = "get"
    /\ CanRLock(mu)
    /\ mu' = [mu EXCEPT !.readers = @ \cup {t}]
    /\ threads' = [threads EXCEPT ![t].pc = "read"]
    /\ UNCHANGED <<cbVars, now, callVars, storeVars, persistVars, waitVars, probe, getVars, concVars>>

\* CreateTask: id := s.nextID
TReadID(t) ==
    /\ threads[t].pc = "id"
    /\ threads' = [threads EXCEPT ![t].pc = "index", ![t].id = store.nextID]
    /\ UNCHANGED <<cbVars, now, callVars, storeVars, persistVars, waitVars, probe, getVars, mu, concVars>>

\* CreateTask: s.nextID++, the new Task, s.tasks[id] = t
TIndex(t) ==
    /\ threads[t].pc = "index"
    /\ store' = [nextID |-> store.nextID + 1,
                 tasks  |-> Put(store.tasks, threads[t].id,
                                [id |-> threads[t].id, links |-> threads[t].arg,
                                 result |-> EmptyMap])]
    /\ threads' = [threads EXCEPT ![t].pc = "append"]
    /\ UNCHANGED <<cbVars, now, callVars, log, updLog, fileVars, persistVars, waitVars,
                   probe, getVars, mu, concVars>>

\* UpdateTaskResult: the lookup, the not-found return, t.Result = result
TLookup(t) ==
    /\ threads[t].pc = "lookup"
    /\ LET u == UpdateTaskResult(store, threads[t].id, threads[t].arg, TRUE) IN
       /\ store' = u.st
       /\ threads' = [threads EXCEPT
                        ![t].pc = IF u.err = "not found" THEN "unlock" ELSE "append",
                        ![t].err = IF u.err = "not found" THEN u.err ELSE "nil"]
    /\ UNCHANGED <<cbVars, now, callVars, log, updLog, fileVars, persistVars, waitVars,
                   probe, getVars, mu, concVars>>

\* The entry the goroutine hands to Append: a create entry points to the
\* Task of the index, an update entry holds the ID and the result.
ThreadEntry(t) ==
    IF threads[t].op = "create"
    THEN [op |-> "create", task |-> store.tasks[threads[t].id]]
    ELSE [op |-> "update", task_id |-> threads[t].id, result |-> threads[t].arg]

\* s.repo.Append of CreateTask and UpdateTaskResult.
TAppend(t, outcome) ==
    /\ threads[t].pc = "append"
    /\ LET a == RepoAppend(repoPath, fileExists, log, rotatedFiles, ThreadEntry(t),
                           outcome, now)
       IN
       /\ log' = a.entries
       /\ fileExists' = a.exists
       /\ rotatedFiles' = a.files
       /\ threads' = [threads EXCEPT ![t].pc = "unlock",
                                     ![t].err = IF a.err THEN "append" ELSE "nil"]
    /\ UNCHANGED <<cbVars, now, callVars, store, updLog, repoPath, proc, hist,
                   persistVars, waitVars, probe, getVars, mu, concVars>>

\* GetTasks: the loop that reads s.tasks.
TRead(t) ==
    /\ threads[t].pc = "read"
    /\ threads' = [threads EXCEPT ![t].pc = "unlock",
                                  ![t].id = Len(GetTasks(store, threads[t].arg))]
    /\ UNCHANGED <<cbVars, now, callVars, storeVars, persistVars, waitVars, probe, getVars, mu, concVars>>

\* The deferred Unlock or RUnlock, and the return to the caller.
TUnlock(t) ==
    /\ threads[t].pc = "unlock"
    /\ mu' = [writer  |-> IF mu.writer = t THEN 0 ELSE mu.writer,
              readers |-> mu.readers \ {t}]
    /\ threads' = [threads EXCEPT ![t].pc = "idle"]
    /\ LET ok == threads[t].err = "nil"
           id == threads[t].id
       IN hist' =
            IF threads[t].op = "create"
            THEN [hist EXCEPT
                    !.allOk  = @ /\ ok,
                    !.ids    = IF ok THEN Append(@, id) ELSE @,
                    !.failed = IF ok THEN @ \ {id} ELSE @ \cup {id},
                    !.acked  = IF ok
                               THEN Put(@, id, [links |-> threads[t].arg, result |-> EmptyMap])
                               ELSE @]
            ELSE IF threads[t].op = "update"
            THEN [hist EXCEPT
                    !.allOk = @ /\ ok,
                    !.acked = IF ok /\ id \in DOMAIN @
                              THEN [@ EXCEPT ![id].result = threads[t].arg] ELSE @]
            ELSE hist
    /\ UNCHANGED <<cbVars, now, callVars, store, log, updLog, repoPath, fileExists,
                   rotatedFiles, proc, persistVars, waitVars, probe, getVars, concVars>>

ConcNext ==
    \/ \E t \in Threads, lnks \in StoreLinks : TCall(t, "create", 0, lnks)
    \/ \E t \in Threads, id \in UpdateIDs, res \in StoreResults : TCall(t, "update", id, res)
    \/ \E t \in Threads, ids \in ConcGetArgs : TCall(t, "get", 0, ids)
    \/ \E t \in Threads : TLock(t)
    \/ \E t \in Threads : TRLock(t)
    \/ \E t \in Threads : TReadID(t)
    \/ \E t \in Threads : TIndex(t)
    \/ \E t \in Threads : TLookup(t)
    \/ \E t \in Threads, o \in ConcOutcomes : TAppend(t, o)
    \/ \E t \in Threads : TRead(t)
    \/ \E t \in Threads : TUnlock(t)

SpecConc == ConcInit /\ [][ConcNext]_vars

\* ------------------------------------------------------------------ the repository alone

\* Append calls on one JSONRepository while days pass: at most MaxAppends
\* calls, the clock moving RTickStep seconds (four days) at a time up to
\* RMaxNow (past the eighth day).
MaxAppends == 5
RTickStep == 345600
RMaxNow == 700000

\* A TASKS_FILE whose rotated names contain ".json-".
P_double == P_tasks \o DotJSON

RepoPaths == {P_tasks, P_double}

\* No Append call has been made: the lines written so far, none.
NoAppends == [calls |-> 0, written |-> << >>, rotations |-> 0]

RepoInit ==
    /\ breaker = newCircuitBreaker(3, 30)
    /\ now = 0
    /\ cbLast = NoCall
    /\ recorded = EmptyMap
    /\ lastFailAt = EmptyMap
    /\ CallIdle
    /\ AuxIdle
    /\ store = NewFileStorage
    /\ log = << >>
    /\ repoPath \in RepoPaths
    /\ fileExists = FALSE
    /\ rotatedFiles = EmptyMap
    /\ proc = "up"
    /\ hist = NoAppends

\* Days pass.
RTick ==
    /\ now + RTickStep <= RMaxNow
    /\ now' = now + RTickStep
    /\ UNCHANGED <<cbVars, svcVars>>

\* The size test of maybeRotate, line 349, on a file that is there.
RotationDue == fileExists /\ ~(FileSize(log) < maxLogFileSize)

\* One Append call, with the entry numbered by the call.
RAppend(outcome) ==
    /\ hist.calls < MaxAppends
    /\ LET entry == [op |-> "update", task_id |-> hist.calls + 1, result |-> R_a]
           a     == RepoAppend(repoPath, fileExists, log, rotatedFiles, entry, outcome, now)
       IN
       /\ log' = a.entries
       /\ fileExists' = a.exists
       /\ rotatedFiles' = a.files
       /\ hist' = [calls     |-> hist.calls + 1,
                   written   |-> IF a.err THEN hist.written
                                 ELSE Append(hist.written, [e |-> entry, ts |-> now]),
                   rotations |-> IF RotationDue /\ outcome # "stat"
                                 THEN hist.rotations + 1 ELSE hist.rotations]
    /\ UNCHANGED <<cbVars, now, callVars, store, updLog, repoPath, proc, persistVars,
                   waitVars, auxVars>>

RepoNext ==
    \/ RTick
    \/ \E o \in AppendOutcomes : RAppend(o)

SpecRepo == RepoInit /\ [][RepoNext]_vars

\* ------------------------------------------------------------------ the report endpoint

\* The goroutines of the HTTP server that serve POST /report.
Callers == {1, 2}

NoReport == [pc |-> "idle", ids |-> << >>, ctxDone |-> FALSE, gets |-> 0,
             status |-> 0, body |-> << >>]

\* The links_list of a request: what GetTasks is asked, and a list with an
\* ID that is not positive.
ReportArgs == GetArgs \cup {<<0>>, <<1, 0>>}

\* gofpdf writes the document or fails.
PdfOutcomes == {"ok", "output"}

dtoToDomain(tasks) ==
    [k \in DOMAIN tasks |->
        [id |-> tasks[k].id, links |-> tasks[k].links, result |-> copyMap(tasks[k].result)]]

\* pdf.BuildLinksReport: a heading, then per task its number and one line
\* per link with the status of the link, not available when it has none.
BuildLinksReport(tasks, outcome) ==
    LET line(t, l) == [link |-> l,
                       status |-> IF t.result # NilMap /\ l \in DOMAIN t.result
                                  THEN t.result[l] ELSE StatusNotAvailable]
        cell(t) == [task |-> t.id,
                    lines |-> [k \in DOMAIN t.links |-> line(t, t.links[k])]]
    IN IF outcome = "ok"
       THEN [data |-> [k \in DOMAIN tasks |-> cell(tasks[k])], err |-> "nil"]
       ELSE [data |-> << >>, err |-> "output"]

\* Service.GenerateReport: the tasks from the storage, then the document.
\* The context it is given is not looked at.
GenerateReport(st, ctx, ids, outcome) ==
    LET tasks == GetTasks(st, ids)
        built == BuildLinksReport(dtoToDomain(tasks), outcome)
    IN [data |-> built.data, err |-> built.err, gets |-> 1]

ReportInit ==
    /\ breaker = newCircuitBreaker(3, 30)
    /\ now = 0
    /\ cbLast = NoCall
    /\ recorded = EmptyMap
    /\ lastFailAt = EmptyMap
    /\ CallIdle
    /\ log = << >>
    /\ FilesIdle
    /\ probe = NoProbe
    /\ heap = << >>
    /\ refs = EmptyMap
    /\ got = NoGot
    /\ mu = Unlocked
    /\ threads = << >>
    /\ store \in GetStores
    /\ report = [c \in Callers |-> NoReport]
    /\ pool = [queue |-> << >>, workers |-> << >>]
    /\ GuardIdle
    /\ MultiIdle

\* Handler.Report up to its call of GenerateReport: a list that is empty or
\* holds an ID that is not positive is answered 400; else the context with
\* the report timeout is made.
RReport(c, ids) ==
    /\ report[c].pc = "idle"
    /\ report' = [report EXCEPT ![c] =
          IF ids = << >> \/ \E k \in DOMAIN ids : ids[k] <= 0
          THEN [@ EXCEPT !.pc = "done", !.ids = ids, !.status = 400]
          ELSE [@ EXCEPT !.pc = "called", !.ids = ids]]
    /\ UNCHANGED <<cbVars, now, callVars, storeVars, persistVars, waitVars,
                   probe, getVars, lockVars, pool, breakerVars, multiVars>>

\* The context of the request is done: the report timeout has passed or the
\* client has gone, before GenerateReport has run.
RExpire(c) ==
    /\ report[c].pc = "called"
    /\ ~report[c].ctxDone
    /\ report' = [report EXCEPT ![c].ctxDone = TRUE]
    /\ UNCHANGED <<cbVars, now, callVars, storeVars, persistVars, waitVars,
                   probe, getVars, lockVars, pool, breakerVars, multiVars>>

\* GenerateReport runs and Handler.Report answers: 504 for a context error,
\* 500 for another error, else the document.
RGenerateReport(c, outcome) ==
    /\ report[c].pc = "called"
    /\ LET r == GenerateReport(store, report[c].ctxDone, report[c].ids, outcome) IN
       report' = [report EXCEPT ![c] =
          [@ EXCEPT !.pc = "done",
                    !.gets = @ + r.gets,
                    !.status = IF r.err \in {"deadline exceeded", "canceled"} THEN 504
                               ELSE IF r.err # "nil" THEN 500
                               ELSE 200,
                    !.body = r.data]]
    /\ UNCHANGED <<cbVars, now, callVars, storeVars, persistVars, waitVars,
                   probe, getVars, lockVars, pool, breakerVars, multiVars>>

ReportNext ==
    \/ \E c \in Callers, ids \in ReportArgs : RReport(c, ids)
    \/ \E c \in Callers : RExpire(c)
    \/ \E c \in Callers, o \in PdfOutcomes : RGenerateReport(c, o)

SpecReport == ReportInit /\ [][ReportNext]_vars

\* ------------------------------------------------------------------ the report queue

\* The queue's callers, the size of the pool (REPORT_WORKERS) and the room of
\* the intake queue.
QCallers == {1, 2, 3}

ReportWorkers == 2

QueueCap == 1

QueueArgs == {<<2, 1>>}

\* Two tasks in the index, the first with a result.
QueueStore ==
    LET one == CreateTask(NewFileStorage, <<L_b, L_a>>, TRUE)
        two == CreateTask(one.st, <<L_b, L_a>>, TRUE)
    IN UpdateTaskResult(two.st, 1, R_a, TRUE).st

IdleWorker == [pc |-> "idle", c |-> 0, tasks |-> << >>, data |-> << >>, err |-> "nil",
               dropped |-> 0]

Cancelled == "canceled"

\* The worker may leave a reply it cannot hand over: the select on the
\* reply slot has the job's context as its other case.
CanDrop_never(r) == FALSE

CanDrop(r) == r.ctxDone

QueueInit ==
    /\ breaker = newCircuitBreaker(3, 30)
    /\ now = 0
    /\ cbLast = NoCall
    /\ recorded = EmptyMap
    /\ lastFailAt = EmptyMap
    /\ CallIdle
    /\ log = << >>
    /\ FilesIdle
    /\ probe = NoProbe
    /\ heap = << >>
    /\ refs = EmptyMap
    /\ got = NoGot
    /\ mu = Unlocked
    /\ threads = << >>
    /\ store = QueueStore
    /\ report = [c \in QCallers |-> NoReport]
    /\ pool = [queue |-> << >>, workers |-> [w \in 1..ReportWorkers |-> IdleWorker]]
    /\ GuardIdle
    /\ MultiIdle

QueueFrame == <<cbVars, now, callVars, storeVars, persistVars, waitVars, probe, getVars, lockVars,
                breakerVars, multiVars>>

\* GenerateReport is called with a context and a list of IDs.
QSubmit(c, ids) ==
    /\ report[c].pc = "idle"
    /\ report' = [report EXCEPT ![c] = [@ EXCEPT !.pc = "submit", !.ids = ids]]
    /\ UNCHANGED <<QueueFrame, pool>>

\* The job {ctx, taskIDs, reply slot} goes into the intake queue when there
\* is room; the caller then waits on its reply slot.
QEnqueue(c) ==
    /\ report[c].pc = "submit"
    /\ Len(pool.queue) < QueueCap
    /\ pool' = [pool EXCEPT !.queue = Append(@, c)]
    /\ report' = [report EXCEPT ![c].pc = "waiting"]
    /\ UNCHANGED QueueFrame

\* The caller's context is done.
QExpire(c) ==
    /\ report[c].pc \in {"submit", "waiting"}
    /\ ~report[c].ctxDone
    /\ report' = [report EXCEPT ![c].ctxDone = TRUE]
    /\ UNCHANGED <<QueueFrame, pool>>

\* The caller, at the intake queue or at its reply slot, takes the case of
\* its context and returns the cancellation.
QGiveUp(c) ==
    /\ report[c].pc \in {"submit", "waiting"}
    /\ report[c].ctxDone
    /\ report' = [report EXCEPT ![c] = [@ EXCEPT !.pc = "done", !.status = 504]]
    /\ UNCHANGED <<QueueFrame, pool>>

\* A worker takes the next job: cancellation for a context that is done,
\* else the tasks from the Store.
QTake(w) ==
    /\ pool.workers[w].pc = "idle"
    /\ pool.queue # << >>
    /\ LET c == Head(pool.queue) IN
       IF report[c].ctxDone
       THEN /\ pool' = [pool EXCEPT !.queue = Tail(@),
                            !.workers[w] = [@ EXCEPT !.pc = "deliver", !.c = c,
                                                     !.err = Cancelled]]
            /\ UNCHANGED report
       ELSE /\ pool' = [pool EXCEPT !.queue = Tail(@),
                            !.workers[w] = [@ EXCEPT !.pc = "fetched", !.c = c,
                                                     !.tasks = GetTasks(store, report[c].ids)]]
            /\ report' = [report EXCEPT ![c].gets = @ + 1]
    /\ UNCHANGED QueueFrame

\* The worker looks at the context again and builds the report.
QBuild(w, outcome) ==
    /\ pool.workers[w].pc = "fetched"
    /\ LET c == pool.workers[w].c
           b == BuildLinksReport(dtoToDomain(pool.workers[w].tasks), outcome)
       IN pool' = [pool EXCEPT !.workers[w] =
             IF report[c].ctxDone
             THEN [@ EXCEPT !.pc = "deliver", !.err = Cancelled]
             ELSE [@ EXCEPT !.pc = "deliver", !.data = b.data, !.err = b.err]]
    /\ UNCHANGED <<QueueFrame, report>>

\* The caller, waiting on its reply slot, gets the reply.
QDeliver(w) ==
    /\ pool.workers[w].pc = "deliver"
    /\ LET c == pool.workers[w].c IN
       /\ report[c].pc = "waiting"
       /\ report' = [report EXCEPT ![c] =
             [@ EXCEPT !.pc = "done",
                       !.status = IF pool.workers[w].err = Cancelled THEN 504
                                  ELSE IF pool.workers[w].err # "nil" THEN 500
                                  ELSE 200,
                       !.body = pool.workers[w].data]]
    /\ pool' = [pool EXCEPT !.workers[w] = [IdleWorker EXCEPT !.dropped = pool.workers[w].dropped]]
    /\ UNCHANGED QueueFrame

\* The worker leaves the reply of a job whose context is done.
QDrop(w) ==
    /\ pool.workers[w].pc = "deliver"
    /\ CanDrop(report[pool.workers[w].c])
    /\ pool' = [pool EXCEPT !.workers[w] =
          [IdleWorker EXCEPT !.dropped = pool.workers[w].dropped + 1]]
    /\ UNCHANGED <<QueueFrame, report>>

QWorker(w) ==
    \/ QTake(w)
    \/ \E o \in PdfOutcomes : QBuild(w, o)
    \/ QDeliver(w)
    \/ QDrop(w)

QueueNext ==
    \/ \E c \in QCallers, ids \in QueueArgs : QSubmit(c, ids)
    \/ \E c \in QCallers : QEnqueue(c)
    \/ \E c \in QCallers : QExpire(c)
    \/ \E c \in QCallers : QGiveUp(c)
    \/ \E w \in 1..ReportWorkers : QWorker(w)

\* The workers are goroutines of their own: each goes on whenever it can.
SpecQueue ==
    /\ QueueInit
    /\ [][QueueNext]_vars
    /\ \A w \in 1..ReportWorkers : WF_vars(QWorker(w))

\* ------------------------------------------------------------------ claims

\* The mapping a result holds, a nil map holding none.
Content(m) == IF m = NilMap THEN EmptyMap ELSE m

Max(S) == CHOOSE x \in S : \A y \in S : y <= x

InFlight == {i \in LinkIdx : workers[i].pc = "inflight"}

PermitHolders ==
    {i \in LinkIdx : workers[i].pc \in {"checkLink", "request", "inflight", "backoff", "store"}}

\* checkLink was called for link i and has returned.
Checked(i) == workers[i].checked /\ workers[i].pc \in {"store", "exit"}

\* C1: during one CheckLinks call the number of outbound GETs in flight
\* never exceeds maxWorkers; a check holds its permit from before checkLink
\* starts until the check ends.
C1_InFlightBounded ==
    /\ Cardinality(InFlight) <= maxWorkers
    /\ Cardinality(PermitHolders) = sem
    /\ sem <= maxWorkers

C1_Witness ==
    /\ Cardinality(InFlight) = maxWorkers
    /\ \E i \in LinkIdx : workers[i].pc = "select"

\* C2: when CheckLinks has returned with a task, every submitted link string
\* is a key of the returned result map and of the map stored for the task (a
\* link that never got a permit being there as not available).
C2_EveryLinkInResult ==
    (pc = "returned" /\ ret.err # "create") =>
        \A i \in LinkIdx :
            /\ links[i] \in DOMAIN ret.result
            /\ links[i] \in DOMAIN store.tasks[taskID].result

\* C3: once CreateTask has succeeded CheckLinks returns the task ID and the
\* computed result map; a failed synchronous update spawns exactly one
\* retrier for the task and flags the return as deferred, a successful one
\* returns unflagged and spawns none.
C3_NeverHardFails ==
    (pc = "returned" /\ taskID # 0) =>
        /\ ret.id = taskID
        /\ ret.result = result
        /\ Len(updLog) >= 1
        /\ ~updLog[1] => /\ ret.err = "deferred"
                         /\ spawned = 1
                         /\ retrier.pc # "none"
                         /\ retrier.id = taskID
                         /\ retrier.res = StrResult(result)
        /\ updLog[1] => /\ ret.err = "nil"
                        /\ spawned = 0
                        /\ retrier = NoRetrier
                        /\ persistWG = 0

\* The call has returned deferred and the retrier has not made an attempt.
C3_Witness ==
    /\ pc = "returned"
    /\ ret.err = "deferred"
    /\ ret.result # EmptyMap
    /\ retrier.pc = "attempt"
    /\ retrier.outcomes = << >>

\* C4: if CreateTask fails, CheckLinks returns the error: no check is
\* dispatched, no GET is made, the breaker is untouched, UpdateTaskResult is
\* never called and no retrier is spawned.
C4_CreateFailureAborts ==
    ret.err = "create" =>
        /\ pc = "returned"
        /\ ret.id = 0
        /\ \A i \in LinkIdx : workers[i] = NewWorker
        /\ sem = 0
        /\ result = EmptyMap
        /\ breaker = newCircuitBreaker(3, 30)
        /\ cbLast = NoCall
        /\ updLog = << >>
        /\ spawned = 0
        /\ retrier = NoRetrier
        /\ persistWG = 0

C4_Witness ==
    /\ ret.err = "create"
    /\ pc = "returned"
    /\ waitPc = "returned"

\* C5: when Wait returns, a retrier spawned before the Wait call has
\* finished (persisted or given up).
C5_WaitDrains ==
    (waitPc = "returned" /\ waitSeen) => retrier.pc = "done"

\* Wait was called while the retrier was running and has returned after the
\* retrier gave up.
C5_Witness ==
    /\ waitPc = "returned"
    /\ waitSeen
    /\ retrier.pc = "done"
    /\ Len(retrier.outcomes) = resultRetryAttempts
    /\ \A k \in 1..Len(retrier.outcomes) : ~retrier.outcomes[k]

\* The store fails the first two UpdateTaskResult calls and accepts from the
\* third on, as far as calls have been made.
FailsTwiceThenSucceeds == \A k \in 1..Len(updLog) : updLog[k] = (k >= 3)

UpdateEntries == {k \in 1..Len(log) : log[k].e.op = "update"}

\* C6: when the update fails and then succeeds on the third attempt made for
\* the task, CheckLinks has returned deferred, and after Wait has returned
\* the store holds the computed result and exactly three update attempts
\* were made.
C6_ThirdAttemptPersists ==
    (waitPc = "returned" /\ waitSeen /\ FailsTwiceThenSucceeds) =>
        /\ ret.err = "deferred"
        /\ updLog = <<FALSE, FALSE, TRUE>>
        /\ store.tasks[taskID].result = StrResult(ret.result)
        /\ Cardinality(UpdateEntries) = 1
        /\ \A k \in UpdateEntries :
             /\ log[k].e.task_id = taskID
             /\ log[k].e.result = StrResult(ret.result)

C6_Witness ==
    /\ waitPc = "returned"
    /\ waitSeen
    /\ updLog = <<FALSE, FALSE, TRUE>>
    /\ ret.result # EmptyMap

Failures(o) == Cardinality({k \in 1..Len(o) : ~o[k]})

\* C7: the retrier makes at most resultRetryAttempts calls and none after a
\* success; it gives up only after resultRetryAttempts failures; it sleeps
\* once after every failed attempt, the last one too, for 1s, 2s, 4s, ...,
\* and never after a success.
C7_RetrierBounded ==
    retrier.pc # "none" =>
        LET o == retrier.outcomes IN
        /\ Len(o) <= resultRetryAttempts
        /\ \A k \in 1..(Len(o) - 1) : ~o[k]
        /\ retrier.pc = "attempt" => Len(o) < resultRetryAttempts /\ Failures(o) = Len(o)
        /\ retrier.pc = "done" => (o[Len(o)] \/ Len(o) = resultRetryAttempts)
        /\ Len(retrier.slept) = IF retrier.pc = "sleep" THEN Failures(o) - 1 ELSE Failures(o)
        /\ \A k \in 1..Len(retrier.slept) : retrier.slept[k] = 2 ^ (k - 1)

C7_Witness ==
    /\ retrier.pc = "done"
    /\ Failures(retrier.outcomes) = resultRetryAttempts
    /\ retrier.slept = <<1, 2, 4, 8, 16>>

\* strings.TrimSpace for strings of the pool (blanks only at the ends).
RECURSIVE TrimSpace(_)
TrimSpace(s) ==
    IF s # EmptyStr /\ s[1] = " " THEN TrimSpace(Tail(s))
    ELSE IF s # EmptyStr /\ s[Len(s)] = " " THEN TrimSpace(SubSeq(s, 1, Len(s) - 1))
    ELSE s

Malformed(link) ==
    \/ TrimSpace(link) = EmptyStr
    \/ \E c \in {"/", "?", "#", ":"} : Contains(link, c)

\* C8: for a malformed link (empty after trimming, or containing one of
\* / ? # :) no outbound call is made and the check ends not available.
C8_MalformedNoCalls ==
    \A i \in LinkIdx :
        Malformed(links[i]) =>
            /\ workers[i].calls = 0
            /\ Checked(i) => workers[i].status = StatusNotAvailable

\* The private ranges: 10/8, 172.16/12, 192.168/16, 127/8, 169.254/16.
InPrivateRange(ip) ==
    \/ ip[1] = 10
    \/ (ip[1] = 172 /\ ip[2] \in 16..31)
    \/ (ip[1] = 192 /\ ip[2] = 168)
    \/ ip[1] = 127
    \/ (ip[1] = 169 /\ ip[2] = 254)

\* The link's host is a private literal IP, or resolves, to private
\* addresses only.
PrivateOnly(link) ==
    LET u == ParseURL(NormalizeURL(link)) IN
    /\ u.ok
    /\ IF ParseIP(u.host) # << >>
       THEN InPrivateRange(ParseIP(u.host))
       ELSE /\ ~LookupIP(u.host).err
            /\ Len(LookupIP(u.host).ips) > 0
            /\ \A k \in 1..Len(LookupIP(u.host).ips) : InPrivateRange(LookupIP(u.host).ips[k])

\* C9: a check of a host that is a private literal IP or resolves only to
\* private addresses makes no outbound call, makes no call on the circuit
\* breaker, and ends not available.
C9_PrivateHostBlocked ==
    \A i \in LinkIdx :
        PrivateOnly(links[i]) =>
            /\ workers[i].calls = 0
            /\ workers[i].cbCalls = 0
            /\ Checked(i) => workers[i].status = StatusNotAvailable
            /\ Len(links) = 1 => (breaker = newCircuitBreaker(3, 30) /\ cbLast = NoCall)

C9_Witness ==
    \E i \in LinkIdx :
        /\ PrivateOnly(links[i])
        /\ ParseIP(ParseURL(NormalizeURL(links[i])).host) = << >>
        /\ Checked(i)
        /\ links[i] \in DOMAIN result
        /\ result[links[i]] = StatusNotAvailable

\* C10: for a breaker with threshold T, allow(host) returns true while fewer
\* than T failures have been recorded for the host since its last reset, and
\* returns false on every call made after exactly T recorded failures while
\* the cooldown since the last recorded failure has not elapsed.
C10_AllowGate ==
    (cbLast.op = "allow" /\ cbLast.host # EmptyStr) =>
        /\ cbLast.recorded < breaker.threshold => cbLast.ok
        /\ (cbLast.recorded = breaker.threshold
            /\ cbLast.elapsed <= breaker.cooldown) => ~cbLast.ok

C10_Witness ==
    /\ cbLast.op = "allow"
    /\ cbLast.host # EmptyStr
    /\ cbLast.recorded = breaker.threshold
    /\ cbLast.elapsed >= 0
    /\ cbLast.elapsed <= breaker.cooldown
    /\ ~cbLast.ok

\* C11: an allow(host) made when the host has reached the threshold and more
\* than the cooldown has passed since its last recorded failure returns true
\* and removes the host's failure counter and last-failure time; the counter
\* an allow reads is the number of failures recorded since that reset, so
\* allow keeps returning true until threshold new failures are recorded.
C11_ClosesAfterCooldown ==
    /\ \A h \in (DOMAIN recorded \cup DOMAIN breaker.failures) \ {EmptyStr} :
         Get(breaker.failures, h, 0) = Get(recorded, h, 0)
    /\ (cbLast.op = "allow" /\ cbLast.host # EmptyStr) =>
         /\ (cbLast.recorded >= breaker.threshold /\ cbLast.elapsed > breaker.cooldown) =>
                /\ cbLast.ok
                /\ cbLast.host \notin DOMAIN breaker.failures
                /\ cbLast.host \notin DOMAIN breaker.lastSeen
                /\ allow(breaker, cbLast.host, now).ok
         /\ cbLast.recorded < breaker.threshold => cbLast.ok

\* allow was called on an open host after its cooldown and let it through.
C11_Witness ==
    /\ cbLast.op = "allow"
    /\ cbLast.host # EmptyStr
    /\ cbLast.recorded >= breaker.threshold
    /\ cbLast.elapsed > breaker.cooldown
    /\ cbLast.ok
    /\ cbLast.host \notin DOMAIN breaker.failures

\* C12: success(host) removes the host's failure counter and last-failure
\* time whatever the breaker's state, open within the cooldown included; with
\* no failure recorded since, allow(host) returns true, and the next failure
\* counts as the first.
C12_SuccessClears ==
    /\ (cbLast.op = "success" /\ cbLast.host # EmptyStr) =>
         /\ cbLast.host \notin DOMAIN breaker.failures
         /\ cbLast.host \notin DOMAIN breaker.lastSeen
         /\ allow(breaker, cbLast.host, now).ok
         /\ failure(breaker, cbLast.host, now).failures[cbLast.host] = 1
    /\ (cbLast.op = "allow" /\ cbLast.host # EmptyStr /\ cbLast.recorded = 0) => cbLast.ok

\* success was called on a host that was open within its cooldown.
C12_Witness ==
    /\ cbLast.op = "success"
    /\ cbLast.host # EmptyStr
    /\ cbLast.recorded >= breaker.threshold
    /\ cbLast.elapsed >= 0
    /\ cbLast.elapsed <= breaker.cooldown
    /\ cbLast.host \notin DOMAIN breaker.failures

\* The breaker is open for the host: the threshold is reached and the
\* cooldown since the last failure has not elapsed.
Open(h) ==
    /\ h # EmptyStr
    /\ Get(breaker.failures, h, 0) >= breaker.threshold
    /\ Since(breaker, h, now) <= breaker.cooldown

\* C13: no check issues a GET to a host while the breaker is open for that
\* host, checks that passed allow before the breaker opened included.
C13_NoGetWhileOpen ==
    [][\A i \in LinkIdx :
          (workers[i].pc = "request" /\ workers'[i].pc = "inflight")
              => ~Open(workers[i].host)]_vars

\* The link's host passes the private-address guard of checkLink.
AllowedHost(link) ==
    LET u == ParseURL(NormalizeURL(link)) IN
    u.ok /\ u.host # EmptyStr /\ ~isPrivateHost(u.host)

\* C14: the check of a single link with an allowed host whose transport
\* answers 503 every time, the deadline not firing, makes exactly 3 GETs,
\* waits 100ms and 300ms between them and not after the last, ends not
\* available, and leaves 3 failures recorded for the host.
C14_ThreeAttempts ==
    (Len(links) = 1 /\ AllowedHost(links[1]) /\ Checked(1)
     /\ workers[1].seen = "503" /\ ~ctxDone) =>
        /\ workers[1].calls = 3
        /\ workers[1].waits = <<100, 300>>
        /\ workers[1].status = StatusNotAvailable
        /\ workers[1].cbCalls = 4
        /\ Get(recorded, workers[1].host, 0) = 3
        /\ Get(breaker.failures, workers[1].host, 0) = 3
        /\ pc = "returned" => ret.result = Put(EmptyMap, links[1], StatusNotAvailable)

C14_Witness ==
    /\ Len(links) = 1
    /\ AllowedHost(links[1])
    /\ workers[1].seen = "503"
    /\ workers[1].calls = 3
    /\ ~ctxDone
    /\ pc = "returned"
    /\ ret.result = Put(EmptyMap, links[1], StatusNotAvailable)
    /\ breaker.failures[workers[1].host] = 3

\* The create entries of the log.
CreateEntries == {k \in 1..Len(log) : log[k].e.op = "create"}

\* Every link of the batch got one answer, a 2xx, and the store accepted the
\* update.
AllFirst2xx ==
    /\ \A i \in LinkIdx : workers[i].seen = "2xx" /\ workers[i].pc = "exit"
    /\ Len(updLog) >= 1
    /\ updLog[1]

\* C15: when every link gets a 2xx on its first attempt and the update
\* succeeds, CheckLinks returns the ID CreateTask gave with every link
\* available; CreateTask was called once, UpdateTaskResult once with the
\* returned mapping, and one GET was made per link.
C15_SuccessPath ==
    (pc = "returned" /\ AllFirst2xx) =>
        /\ ret.err = "nil"
        /\ Cardinality(CreateEntries) = 1
        /\ store.nextID = 2
        /\ \A k \in CreateEntries : ret.id = log[k].e.task.id
        /\ DOMAIN ret.result = {links[i] : i \in LinkIdx}
        /\ \A l \in DOMAIN ret.result : ret.result[l] = StatusAvailable
        /\ updLog = <<TRUE>>
        /\ Cardinality(UpdateEntries) = 1
        /\ \A k \in UpdateEntries :
             /\ log[k].e.task_id = ret.id
             /\ log[k].e.result = StrResult(ret.result)
        /\ store.tasks[ret.id].result = StrResult(ret.result)
        /\ \A i \in LinkIdx : workers[i].calls = 1
        /\ spawned = 0

C15_Witness ==
    /\ pc = "returned"
    /\ AllFirst2xx
    /\ Cardinality(DOMAIN ret.result) = 2
    /\ ret.err = "nil"

\* The lines of the tasks file that are create entries with a task; the IDs
\* they carry; the last create line of an ID, and the update lines of the ID
\* that follow it.
CreateLines == {k \in 1..Len(log) : log[k].e.op = "create" /\ "task" \in DOMAIN log[k].e}

CreateIDs == {log[k].e.task.id : k \in CreateLines}

LastCreate(id) == Max({k \in CreateLines : log[k].e.task.id = id})

UpdatesAfter(id, c) ==
    {k \in (c + 1)..Len(log) : log[k].e.op = "update" /\ log[k].e.task_id = id}

\* C16: Load on a file of complete create and update entries succeeds and
\* replays them in file order into an empty index: next-ID is the largest
\* create ID plus one, the tasks are those of the create entries, each with
\* the links of its create entry and the result of the last update entry
\* that follows it, or the create entry's own result if there is none; an
\* update entry with no create entry before it creates no task.
C16_LoadReplays ==
    (proc # "boot" /\ fileExists /\ \A k \in 1..Len(log) : log[k].e.op # "torn") =>
        /\ proc = "up"
        /\ store.nextID = Max(CreateIDs \cup {0}) + 1
        /\ DOMAIN store.tasks = CreateIDs
        /\ \A id \in CreateIDs :
             LET c == LastCreate(id)
                 U == UpdatesAfter(id, c)
             IN /\ store.tasks[id].id = id
                /\ store.tasks[id].links = log[c].e.task.links
                /\ Content(store.tasks[id].result) =
                       IF U = {} THEN Content(log[c].e.task.result)
                       ELSE Content(log[Max(U)].e.result)

\* Load has replayed a file with an update of an ID that has no create
\* entry yet, a create entry, and an update of it.
C16_Witness ==
    /\ proc = "up"
    /\ Len(log) = 3
    /\ log[1].e.op = "update"
    /\ log[1].e.task_id = 2
    /\ log[2].e.op = "create"
    /\ "task" \in DOMAIN log[2].e
    /\ log[2].e.task.id = 2
    /\ log[3].e = [op |-> "update", task_id |-> 2, result |-> R_n]
    /\ store.nextID = 3
    /\ store.tasks[2].result = R_n

\* Every ID the store has given out so far, in order.
AllIDs(st) == [k \in 1..(st.nextID - 1) |-> k]

\* Two GetTasks answers hold the same tasks: IDs, links in order, results.
SameTasks(x, y) ==
    /\ Len(x) = Len(y)
    /\ \A k \in 1..Len(x) :
         /\ x[k].id = y[k].id
         /\ x[k].links = y[k].links
         /\ Content(x[k].result) = Content(y[k].result)

\* C17: after CreateTask and UpdateTaskResult calls that all returned
\* success, a new store loaded from the tasks file has the same next-ID and
\* returns from GetTasks the same tasks: IDs, links in order, and results.
C17_RoundTrip ==
    (proc = "up" /\ hist.allOk) =>
        LET l == Load(NewFileStorage, fileExists, log) IN
        /\ ~l.err
        /\ l.st.nextID = store.nextID
        /\ SameTasks(GetTasks(l.st, AllIDs(store)), GetTasks(store, AllIDs(store)))

\* C18: a task whose CreateTask returned an error is not in the index:
\* GetTasks does not return it and UpdateTaskResult for its ID does not
\* succeed.
C18_FailedCreateNotIndexed ==
    \A id \in hist.failed :
        /\ id \notin DOMAIN store.tasks
        /\ GetTasks(store, <<id>>) = << >>
        /\ UpdateTaskResult(store, id, R_a, TRUE).err = "not found"

\* C19: the IDs returned by successful CreateTask calls, over restarts and
\* rotations, are strictly increasing, so no ID is returned twice.
C19_IDsIncrease ==
    \A i \in 1..Len(hist.ids) : \A j \in 1..Len(hist.ids) :
        i < j => hist.ids[i] < hist.ids[j]

\* C20: after a restart, GetTasks returns every task whose CreateTask
\* returned success, with its links and the result of its last successful
\* UpdateTaskResult.
C20_RestartKeepsTasks ==
    (hist.restarts > 0 /\ hist.fresh) =>
        \A id \in DOMAIN hist.acked :
            /\ proc = "up"
            /\ LET tasks == GetTasks(store, <<id>>) IN
               /\ Len(tasks) = 1
               /\ tasks[1].id = id
               /\ tasks[1].links = hist.acked[id].links
               /\ Content(tasks[1].result) = Content(hist.acked[id].result)

\* C23: once the shared deadline of the CheckLinks call has fired, no check
\* of that call enters client.Do again, whether it was waiting for a permit
\* or inside its retry loop.
C23_NoGetAfterDeadline ==
    [][\A i \in LinkIdx :
          (workers[i].pc = "request" /\ workers'[i].pc = "inflight")
              => ~ctxDone]_vars

\* C24: after the shared deadline has expired, CheckLinks does not keep
\* waiting for a check whose transport call has not returned: when every
\* unfinished check is inside client.Do, the step that leaves wg.Wait can
\* be taken.
C24_NoWaitAfterDeadline ==
    (/\ pc = "wait"
     /\ ctxDone
     /\ \A i \in LinkIdx : workers[i].pc \in {"exit", "inflight"})
        => ENABLED CLUpdate

\* The checks that stored a status in the result map.
Stored == {i \in LinkIdx : workers[i].checked /\ workers[i].pc = "exit"}

RecordsSuccess(i) ==
    /\ breaker' = success(breaker, workers[i].host)
    /\ cbLast'.op = "success" /\ cbLast'.host = workers[i].host
    /\ workers'[i].status = StatusAvailable
    /\ workers'[i].pc = "store"
    /\ workers'[i].cbCalls = workers[i].cbCalls + 1

\* The step records one breaker failure for the host of check i.
RecordsFailure(i) ==
    /\ breaker' = failure(breaker, workers[i].host, now)
    /\ cbLast'.op = "failure" /\ cbLast'.host = workers[i].host
    /\ workers'[i].status = StatusNotAvailable
    /\ workers'[i].cbCalls = workers[i].cbCalls + 1

\* The breaker calls of check i after its allow call equal its finished
\* GETs, and a check that got Available is past its retry loop.
OnePerGet(i) ==
    /\ workers[i].calls >= 1 =>
          workers[i].cbCalls - 1 =
              workers[i].calls - (IF workers[i].pc = "inflight" THEN 1 ELSE 0)
    /\ workers[i].status = StatusAvailable =>
          /\ workers[i].pc \in {"store", "exit"}
          /\ workers[i].calls \in 1..Len(backoffs)

\* C26: a response with a status in [200,400) records a breaker success
\* for the host and ends the check with Available and no further attempt;
\* any other response and every transport error records exactly one
\* breaker failure; so for a check of an allowed host the breaker has seen
\* one success or one failure per finished GET.
C26_OneOutcomePerGet ==
    [][\A i \in LinkIdx :
          /\ \A code \in StatusCodes :
                WDoResponse(i, code) =>
                    IF code >= 200 /\ code < 400
                    THEN RecordsSuccess(i) ELSE RecordsFailure(i)
          /\ WDoError(i) => RecordsFailure(i)
          /\ workers[i].calls' = workers[i].calls \/ workers[i].pc = "request"
          /\ OnePerGet(i)']_vars

\* A check of an allowed host failed once, then got a response in
\* [200,400) and stored Available: two GETs, one failure and one success.
C26_Witness ==
    \E i \in LinkIdx :
        /\ AllowedHost(links[i])
        /\ workers[i].pc = "exit"
        /\ workers[i].status = StatusAvailable
        /\ workers[i].calls = 2
        /\ workers[i].cbCalls = 3
        /\ cbLast.op = "success"

\* C27: when allow(host) answers false, the check ends at once with
\* NotAvailable, without a GET and without a recorded failure, and the
\* denied call leaves the breaker's failure counter and last-failure
\* timestamp of the host as they were.
C27_DeniedIsFree ==
    [][\A i \in LinkIdx :
          (/\ WCheckLink(i)
           /\ workers'[i].cbCalls = workers[i].cbCalls + 1
           /\ ~cbLast'.ok)
              => /\ workers'[i].pc = "store"
                 /\ workers'[i].status = StatusNotAvailable
                 /\ workers'[i].calls = 0
                 /\ workers'[i].cbCalls = 1
                 /\ breaker' = breaker
                 /\ recorded' = recorded
                 /\ lastFailAt' = lastFailAt
                 /\ Open(workers'[i].host)]_vars

\* A check was denied by the open breaker and stored NotAvailable without
\* having issued a GET; the host's counter is still at the threshold.
C27_Witness ==
    /\ cbLast.op = "allow"
    /\ ~cbLast.ok
    /\ \E i \in LinkIdx :
          /\ workers[i].pc = "exit"
          /\ workers[i].host = cbLast.host
          /\ workers[i].calls = 0
          /\ workers[i].cbCalls = 1
          /\ Get(result, links[i], "") = StatusNotAvailable
    /\ Get(breaker.failures, cbLast.host, 0) = breaker.threshold

\* C29: whenever no store call is in progress, the index (task set, links
\* and results) equals the replay of the current tasks file, also after a
\* CreateTask or UpdateTaskResult whose append failed.
C29_IndexIsReplay ==
    proc = "up" =>
        LET l == Load(NewFileStorage, fileExists, log) IN
        /\ ~l.err
        /\ DOMAIN l.st.tasks = DOMAIN store.tasks
        /\ \A id \in DOMAIN store.tasks :
              /\ l.st.tasks[id].links = store.tasks[id].links
              /\ Content(l.st.tasks[id].result) = Content(store.tasks[id].result)

\* What the guard is to answer for a host: for a literal IPv4 address,
\* whether it lies in one of the five ranges; for a name, whether the
\* resolution fails, gives no address, or gives private addresses only.
ToBlock(host) ==
    IF ParseIP(host) # << >>
    THEN InPrivateRange(ParseIP(host))
    ELSE \/ LookupIP(host).err
         \/ Len(LookupIP(host).ips) = 0
         \/ \A k \in 1..Len(LookupIP(host).ips) : InPrivateRange(LookupIP(host).ips[k])

\* C28: the guard blocks a name exactly when it does not resolve, resolves
\* to no address, or resolves to private addresses only (one public address
\* lets it through), and blocks a literal IPv4 address exactly in 10/8,
\* 172.16/12, 192.168/16, 127/8 and 169.254/16.
C28_GuardBlocksExactly ==
    probe.pc = "returned" => (probe.blocked <=> ToBlock(probe.host))

\* The guard let through a name that resolves to a private and a public
\* address.
C28_Witness ==
    /\ probe.pc = "returned"
    /\ probe.host = L_m
    /\ \E k \in 1..Len(LookupIP(L_m).ips) : InPrivateRange(LookupIP(L_m).ips[k])
    /\ ~probe.blocked

\* The requested IDs that are in the index, in the order of the request.
Present(ids) == SelectSeq(ids, LAMBDA id : id \in DOMAIN store.tasks)

\* C21: GetTasks returns no error and, in the order of ids, one task per
\* requested ID that is in the index, skipping the others; neither the call
\* nor a later write of the caller to the Links or the Result of a returned
\* task changes the index, the next ID or the tasks file, so that a later
\* GetTasks returns the tasks as they were.
C21_GetTasksCopies ==
    [][/\ store' = store
       /\ <<log, fileExists, rotatedFiles>>' = <<log, fileExists, rotatedFiles>>
       /\ got'.n # got.n =>
             /\ got'.err = "nil"
             /\ Len(got'.tasks) = Len(Present(got'.ids))
             /\ \A k \in 1..Len(got'.tasks) :
                   LET id == Present(got'.ids)[k] IN
                   /\ got'.tasks[k].id = id
                   /\ Deref(heap', got'.tasks[k].links) = store.tasks[id].links
                   /\ Content(Deref(heap', got'.tasks[k].result))
                          = Content(store.tasks[id].result)]_vars

\* The caller changed the Links and the Result of a task it got from a
\* first GetTasks; a second GetTasks, asked for that task and for an ID that
\* is not in the index, returned the task as the index has it.
C21_Witness ==
    /\ got.n = 2
    /\ Len(got.ids) = 2
    /\ Len(got.tasks) = 1
    /\ DOMAIN refs = {1}
    /\ refs[1].result # 0
    /\ Len(heap) = 6
    /\ heap[3][1] = L_n
    /\ Get(heap[4], L_a, "") = StatusNotAvailable
    /\ Deref(heap, got.tasks[1].links) = store.tasks[1].links
    /\ Deref(heap, got.tasks[1].result) = store.tasks[1].result
    /\ store.tasks[1].links = <<L_b, L_a>>
    /\ store.tasks[1].result = EmptyMap

\* C22: whatever the interleaving of CreateTask, UpdateTaskResult and
\* GetTasks calls on one store, the IDs successful CreateTask calls have
\* returned are pairwise distinct, and an UpdateTaskResult called with an ID
\* that a successful CreateTask had returned does not fail with not-found.
C22_DistinctAndFound ==
    /\ \A j, k \in DOMAIN hist.ids : j # k => hist.ids[j] # hist.ids[k]
    /\ \A t \in DOMAIN threads :
          (threads[t].op = "update" /\ threads[t].known) => threads[t].err # "not found"

\* Two CreateTask calls, one of them made while another call was under
\* way, returned two IDs, and an UpdateTaskResult for a returned ID that
\* was made while another call was under way has returned without error.
C22_Witness ==
    /\ Len(hist.ids) = 2
    /\ \E t, u \in DOMAIN threads :
          /\ t # u
          /\ threads[t].op = "create" /\ threads[t].overlap
          /\ threads[t].pc = "idle" /\ threads[t].err = "nil"
          /\ threads[u].op = "update" /\ threads[u].known /\ threads[u].overlap
          /\ threads[u].pc = "idle" /\ threads[u].err = "nil"

\* The lines of the tasks file that hold a create entry, and an update entry.
CreateAt(k) == log[k].e.op = "create"

UpdateAt(k) == log[k].e.op = "update"

\* C30: in the tasks file the create entries stand in the order in which
\* their IDs were assigned, and every update entry for an ID stands after
\* the create entry for that ID.
C30_LogOrder ==
    /\ \A j, k \in DOMAIN log :
          (j < k /\ CreateAt(j) /\ CreateAt(k)) => log[j].e.task.id < log[k].e.task.id
    /\ \A k \in DOMAIN log :
          UpdateAt(k) =>
              \E j \in 1..(k - 1) : CreateAt(j) /\ log[j].e.task.id = log[k].e.task_id

\* The lines of the tasks file before its last one.
Complete == SubSeq(log, 1, Len(log) - 1)

\* C31: Load on a tasks file of complete entries followed by a final entry
\* that is cut short succeeds, and the index is the replay of the complete
\* entries; Load on a missing file succeeds and gives an empty store.
C31_TruncatedTailKept ==
    proc # "boot" =>
        /\ (/\ fileExists
            /\ log # << >>
            /\ log[Len(log)].e = Torn
            /\ \A k \in 1..(Len(log) - 1) : log[k].e # Torn)
               => /\ proc = "up"
                  /\ store = Load(NewFileStorage, TRUE, Complete).st
        /\ ~fileExists => (proc = "up" /\ store = NewFileStorage)

\* C32: UpdateTaskResult for an ID that is not in the index returns the
\* not-found error, appends nothing to the tasks file and leaves the index
\* and the next ID as they were, up to and including its return.
C32_NotFoundChangesNothing ==
    [][\A t \in Threads :
          /\ (TLookup(t) /\ threads[t].id \notin DOMAIN store.tasks)
                => /\ threads'[t].err = "not found"
                   /\ threads'[t].pc = "unlock"
                   /\ <<store, log, fileExists, rotatedFiles>>'
                          = <<store, log, fileExists, rotatedFiles>>
          /\ (/\ threads[t].pc = "unlock"
              /\ threads[t].err = "not found"
              /\ threads'[t] # threads[t])
                => /\ threads'[t].pc = "idle"
                   /\ threads'[t].err = "not found"
                   /\ <<store, log, fileExists, rotatedFiles>>'
                          = <<store, log, fileExists, rotatedFiles>>]_vars

\* An UpdateTaskResult for an ID that is not in the index of a store with
\* one task has returned not-found.
C32_Witness ==
    \E t \in DOMAIN threads :
        /\ threads[t].op = "update"
        /\ threads[t].pc = "idle"
        /\ threads[t].err = "not found"
        /\ threads[t].id \notin DOMAIN store.tasks
        /\ DOMAIN store.tasks = {1}
        /\ store.nextID = 2

\* The lines held by the tasks file and the rotated files, for given values
\* of both.
Kept(active, files) ==
    {active[k] : k \in DOMAIN active}
        \cup UNION {{files[n].entries[k] : k \in DOMAIN files[n].entries} : n \in DOMAIN files}

\* The line was written within the retention window before time t.
Young(line, t) == line.ts > t - logRetentionDays * 86400

\* C33: a file is rotated only by an Append that finds the tasks file at
\* the size threshold; the tasks file then holds at most the entry being
\* appended, the rotated file, named with the date, holds the lines the
\* tasks file held, and every line written so far is still in the tasks
\* file or in a rotated file (lines older than the retention window, which
\* the clean-up may remove, are left aside).
C33_RotationKeepsEntries ==
    [][/\ rotatedFiles' # rotatedFiles =>
             /\ RotationDue
             /\ hist'.calls = hist.calls + 1
             /\ Len(log') <= 1
             /\ \A k \in DOMAIN log' :
                   log'[k].e = Torn \/ log'[k].e.task_id = hist'.calls
             /\ (\E k \in DOMAIN log : Young(log[k], now)) =>
                   /\ rotatedName(repoPath, now) \in DOMAIN rotatedFiles'
                   /\ rotatedFiles'[rotatedName(repoPath, now)].entries = log
       /\ \A k \in DOMAIN hist'.written :
             Young(hist'.written[k], now') =>
                 hist'.written[k] \in Kept(log', rotatedFiles')]_vars

\* C34: an Append that rotates removes every rotated file that is older
\* than the retention window and no rotated file that is younger (the file
\* whose name the rotation takes over is left aside).
C34_RetentionCleanup ==
    [][hist'.rotations # hist.rotations =>
          \A n \in DOMAIN rotatedFiles :
              n # rotatedName(repoPath, now) =>
                  /\ rotatedFiles[n].mod < now - logRetentionDays * 86400
                        => n \notin DOMAIN rotatedFiles'
                  /\ rotatedFiles[n].mod > now - logRetentionDays * 86400
                        => (/\ n \in DOMAIN rotatedFiles'
                            /\ rotatedFiles'[n] = rotatedFiles[n])]_vars

\* C35: a report request whose context is already done when GenerateReport
\* takes it up is answered with the cancellation (504 for the caller) and
\* the storage is not asked for its tasks.
C35_ExpiredReportCancelled ==
    [][\A c \in Callers :
          (report[c].pc = "called" /\ report[c].ctxDone /\ report'[c].pc = "done")
             => (report'[c].status = 504 /\ report'[c].gets = report[c].gets)]_vars

C38_StatusNeverReplaced ==
    [][\A l \in DOMAIN result :
          l \in DOMAIN result' /\ result'[l] = result[l]]_vars

\* C40: once a Wait() that was invoked while the CheckLinks call was in
\* flight has returned, no retry goroutine of that call is running, so none
\* has been started after the return either.
C40_NoRetrierAfterWait ==
    waitPc = "returned" => retrier.pc \in {"none", "done"}

\* C39: under concurrent calls the breaker loses no failure: the counter of
\* a host is the number of failure calls recorded for it since its last
\* reset; a step changes the counter and the timestamp only of the host the
\* stepping goroutine has called with; a call with the empty host leaves the
\* breaker as it is, and allow("") answers true.
C39_BreakerConcurrentSafe ==
    [][/\ \A h \in BHosts :
             Get(breaker'.failures, h, 0) = Get(recorded', h, 0)
       /\ \A h \in BHosts :
             (\/ Get(breaker'.failures, h, 0) # Get(breaker.failures, h, 0)
              \/ Get(breaker'.lastSeen, h, -1) # Get(breaker.lastSeen, h, -1))
                => \E g \in CbGoroutines :
                      /\ cbThreads[g].host = h
                      /\ cbThreads[g].pc \in {"held", "write"}
                      /\ cbThreads'[g].pc = "unlock"
       /\ \A g \in CbGoroutines :
             (cbThreads'[g] # cbThreads[g] /\ cbThreads'[g].host = EmptyStr)
                => /\ breaker' = breaker
                   /\ cbThreads'[g].pc = "returned"
                   /\ cbThreads'[g].ok]_vars

\* Both goroutines are in failure() for the same host: one has the mutex and
\* has read the counter, left at 1 by an earlier call, the other waits.
C39_Witness ==
    /\ DOMAIN cbThreads = CbGoroutines
    /\ \E g, o \in CbGoroutines :
          /\ g # o
          /\ cbThreads[g].op = "failure" /\ cbThreads[o].op = "failure"
          /\ cbThreads[g].host = <<"a">> /\ cbThreads[o].host = <<"a">>
          /\ cbThreads[g].pc = "write" /\ cbThreads[g].local = 1
          /\ cbThreads[o].pc = "lock"
          /\ cbMu = g

\* C37: the outbound GETs in flight on one service, counted over all the
\* CheckLinks calls running on it, never exceed maxWorkers.
C37_InFlightBoundedAcrossCalls ==
    Cardinality({ki \in CallIds \X (1..2) :
                    /\ ki[2] \in DOMAIN calls[ki[1]].workers
                    /\ calls[ki[1]].workers[ki[2]].pc = "inflight"}) <= maxWorkers

====
